---- MODULE Spec2Model ----
(***************************************************************************)
(* ListenFill AI: the exercise-generation pipeline.                        *)
(*                                                                         *)
(* A generation request is started from ExerciseConfigDialog, runs in an   *)
(* AIExerciseThread (AIExerciseGenerator.generate_exercises), reports      *)
(* started / progress / finished to the dialog, and on success hands the   *)
(* exercise list to MainWindow.on_exercises_generated, which repairs       *)
(* records without blanks (_ensure_min_blanks) and installs the list.      *)
(*                                                                         *)
(* Strings are sequences of one-character strings, so that split(),        *)
(* strip(), lower() and the regular-expression clean-up are computed, not  *)
(* assumed.  A character outside ASCII is written by its code point.       *)
(***************************************************************************)
EXTENDS Integers, Sequences, FiniteSets, TLC

\* ------------------------------------------------------------------ text

LowerLetters ==
    <<"a","b","c","d","e","f","g","h","i","j","k","l","m",
      "n","o","p","q","r","s","t","u","v","w","x","y","z">>

UpperLetters ==
    <<"A","B","C","D","E","F","G","H","I","J","K","L","M",
      "N","O","P","Q","R","S","T","U","V","W","X","Y","Z">>

Digits == {"0","1","2","3","4","5","6","7","8","9"}

Range(s) == {s[i] : i \in DOMAIN s}

\* str.lower() on one character
LowerChar(c) ==
    IF \E i \in DOMAIN UpperLetters : UpperLetters[i] = c
    THEN LowerLetters[CHOOSE i \in DOMAIN UpperLetters : UpperLetters[i] = c]
    ELSE c

\* str.upper() on one character
UpperChar(c) ==
    IF \E i \in DOMAIN LowerLetters : LowerLetters[i] = c
    THEN UpperLetters[CHOOSE i \in DOMAIN LowerLetters : LowerLetters[i] = c]
    ELSE c

\* str.lower()
Lower(s) == [i \in DOMAIN s |-> LowerChar(s[i])]

\* str.upper()
Upper(s) == [i \in DOMAIN s |-> UpperChar(s[i])]

\* the characters str.split() and str.strip() treat as white space
Whitespace == {" ", "\t", "\n", "\r"}

\* the argument of strip() in validate_blanks, parse_ai_response and
\* fallback_parsing: '.,!?;:"()[]{}'
GatePunct == {".", ",", "!", "?", ";", ":", "\"", "(", ")", "[", "]", "{", "}"}

\* \w of Python's re for the characters of the model: letters and digits
\* (the underscore is \w too, and the pattern [\W_] puts it back)
IsAlnum(c) == c \in Range(LowerLetters) \cup Range(UpperLetters) \cup Digits

RECURSIVE LStrip(_, _)
LStrip(s, chars) ==
    IF s = <<>> \/ Head(s) \notin chars THEN s ELSE LStrip(Tail(s), chars)

RECURSIVE RStrip(_, _)
RStrip(s, chars) ==
    IF s = <<>> \/ s[Len(s)] \notin chars THEN s
    ELSE RStrip(SubSeq(s, 1, Len(s) - 1), chars)

\* str.strip(chars)
Strip(s, chars) == RStrip(LStrip(s, chars), chars)

\* word.strip('.,!?;:"()[]{}')
GateStrip(w) == Strip(w, GatePunct)

\* re.sub(r'^[\W_]+|[\W_]+$', '', w): the leading and the trailing run of
\* characters that are not letters or digits are removed
RegexClean(w) == Strip(w, {c \in Range(w) : ~IsAlnum(c)})

RECURSIVE SplitAcc(_, _, _)
SplitAcc(s, cur, acc) ==
    IF s = <<>> THEN (IF cur = <<>> THEN acc ELSE Append(acc, cur))
    ELSE IF Head(s) \in Whitespace
         THEN SplitAcc(Tail(s), <<>>, IF cur = <<>> THEN acc ELSE Append(acc, cur))
         ELSE SplitAcc(Tail(s), Append(cur, Head(s)), acc)

\* str.split(): the maximal runs of characters that are not white space
Split(s) == SplitAcc(s, <<>>, <<>>)

\* the closed-class word list of _ensure_min_blanks
stopwords == {
    <<"t","h","e">>, <<"a">>, <<"a","n">>, <<"i","s">>, <<"a","r","e">>, <<"a","m">>,
    <<"w","a","s">>, <<"w","e","r","e">>, <<"b","e">>, <<"b","e","e","n">>,
    <<"b","e","i","n","g">>, <<"a","n","d">>, <<"o","r">>, <<"b","u","t">>, <<"t","o">>,
    <<"o","f">>, <<"i","n">>, <<"o","n">>, <<"a","t">>, <<"f","o","r">>,
    <<"f","r","o","m">>, <<"b","y">>, <<"w","i","t","h">>, <<"a","s">>,
    <<"t","h","a","t">>, <<"t","h","i","s">>, <<"t","h","e","s","e">>,
    <<"t","h","o","s","e">>, <<"i","t">>, <<"i","t","s">>, <<"h","e">>, <<"s","h","e">>,
    <<"t","h","e","y">>, <<"w","e">>, <<"y","o","u">>, <<"i">>, <<"m","e">>,
    <<"h","i","m">>, <<"h","e","r">>, <<"t","h","e","m">>, <<"u","s">>,
    <<"y","o","u","r">>, <<"o","u","r">>, <<"t","h","e","i","r">>, <<"m","y">> }

\* ------------------------------------------------------------ subtitles

\* SubtitleItem(index, start_time, end_time, text); the times are those of
\* an SRT file with one-second cues
SubtitleItem(i, t) ==
    [index |-> i, start_time |-> 1000 * i, end_time |-> 1000 * i + 900, text |-> t]

\* "-Hola gato."
TextDashHola == <<"-","H","o","l","a"," ","g","a","t","o",".">>

\* "..."
TextDots == <<".",".",".">>

\* "the cat"
TextTheCat == <<"t","h","e"," ","c","a","t">>

\* "" (a cue that held only markup: SubtitleParser._clean_text leaves it empty)
TextEmpty == <<>>

\* a short subtitle file whose cues differ in every way the generators see
RichCorpus ==
    <<SubtitleItem(1, TextDashHola), SubtitleItem(2, TextDots), SubtitleItem(3, TextTheCat)>>

\* generate_exercises: batch_size = 10
batch_size == 10

\* the longest subtitle file of the model: one cue more than a batch
MaxSubs == 11

\* a subtitle file longer than one batch; its cues are empty
LongCorpus == [i \in 1..MaxSubs |-> SubtitleItem(i, TextEmpty)]

Corpora == {RichCorpus, LongCorpus}

Min(a, b) == IF a <= b THEN a ELSE b

\* the subtitle lists a request is made for: the first n cues of a file
SubtitleLists ==
    UNION {{SubSeq(c, 1, n) : n \in 0..Min(Len(c), MaxSubs)} : c \in Corpora}

\* ------------------------------------------------- Optional[...] values

None == [is_none |-> TRUE, value |-> <<>>]

Some(v) == [is_none |-> FALSE, value |-> v]

\* Python truthiness of an Optional[List]: None and [] are false
Truthy(o) == ~o.is_none /\ o.value # <<>>

\* ---------------------------------------------- the validation gate

\* f"{len(expected_word)} letters"
LettersHint(n) == [kind |-> "letters", n |-> n]

\* a hint the remote service wrote
AiHint == [kind |-> "ai", n |-> 0]

\* blank.get('position', -1)
GetPosition(blank) == IF blank.has_position THEN blank.position ELSE -1

\* blank.get('word', '').strip()
GetWord(blank) == Strip(IF blank.has_word THEN blank.word ELSE <<>>, Whitespace)

\* 0 <= position < len(words) raises TypeError when position is not a number
RaisesTypeError(blank) == blank.has_position /\ ~blank.position_is_int

\* the gate of validate_blanks: the position indexes a word and the claimed
\* word equals that word, stripped, without regard to case
Accepts(blank, words) ==
    LET position == GetPosition(blank)
    IN  /\ 0 <= position
        /\ position < Len(words)
        /\ Lower(GetWord(blank)) = Lower(GateStrip(words[position + 1]))

\* the record validate_blanks appends for an accepted blank
ValidBlank(blank, words) ==
    LET expected_word == GateStrip(words[blank.position + 1])
    IN  [position   |-> blank.position,
         answer     |-> expected_word,
         hint       |-> IF blank.has_hint THEN AiHint
                        ELSE LettersHint(Len(expected_word)),
         difficulty |-> IF blank.has_difficulty THEN blank.difficulty ELSE "medium"]

\* the loop of validate_blanks, when no blank raises
ValidBlanks(blanks, words) ==
    LET kept == SelectSeq(blanks, LAMBDA b : Accepts(b, words))
    IN  [i \in DOMAIN kept |-> ValidBlank(kept[i], words)]

\* AIExerciseGenerator.validate_blanks: [raised, value]
validate_blanks(blanks, original_text) ==
    LET words == Split(original_text)
    IN  IF \E i \in DOMAIN blanks : RaisesTypeError(blanks[i])
        THEN [raised |-> TRUE, value |-> <<>>]
        ELSE [raised |-> FALSE, value |-> ValidBlanks(blanks, words)]

\* k-element subsets of 0..n-1: what random.sample(range(n), k) can draw
Samples(n, k) == {S \in SUBSET (0..(n - 1)) : Cardinality(S) = k}

RECURSIVE SortedSeq(_)
\* sorted(positions)
SortedSeq(S) ==
    IF S = {} THEN <<>>
    ELSE LET m == CHOOSE x \in S : \A y \in S : x <= y
         IN  <<m>> \o SortedSeq(S \ {m})

\* AIExerciseGenerator.fallback_parsing: every list the random draw can give
fallback_parsing(original_text) ==
    LET words == Split(original_text)
        num_blanks == Min(2, (Len(words) \div 3) + 1)
    IN  { LET positions == SortedSeq(S)
          IN  [i \in DOMAIN positions |->
                 LET word == GateStrip(words[positions[i] + 1])
                 IN  [position   |-> positions[i],
                      answer     |-> word,
                      hint       |-> LettersHint(Len(word)),
                      difficulty |-> "medium"]]
          : S \in Samples(Len(words), Min(num_blanks, Len(words))) }

\* AIExerciseGenerator.parse_ai_response: every list it can return
parse_ai_response(response, original_text) ==
    IF response.kind = "garbage"
    THEN fallback_parsing(original_text)
    ELSE IF \E i \in DOMAIN response.blanks : RaisesTypeError(response.blanks[i])
         THEN {<<>>}
         ELSE {ValidBlanks(response.blanks, Split(original_text))}

\* the exercise record both generators build for a subtitle
ExerciseRecord(subtitle, blanks, current, total) ==
    [original_text  |-> subtitle.text,
     blanks         |-> blanks,
     current        |-> current,
     total          |-> total,
     subtitle_index |-> subtitle.index,
     start_time     |-> subtitle.start_time,
     end_time       |-> subtitle.end_time]

\* a faulty variant: sentence_index used as the service wrote it, without
\* the conversion to a 0-based index
SentenceIndexAsWritten(exercise_data) ==
    IF exercise_data.has_index THEN exercise_data.sentence_index ELSE 1

\* exercise_data.get('sentence_index', 1) - 1
SentenceIndex(exercise_data) ==
    (IF exercise_data.has_index THEN exercise_data.sentence_index ELSE 1) - 1

\* parse_batch_ai_response: 0 <= sentence_index < len(batch_subtitles)
IndexValid(sentence_index, batch_subtitles) ==
    0 <= sentence_index /\ sentence_index < Len(batch_subtitles)

\* parse_batch_ai_response: the segment an exercise is attached to
BatchSegment(batch_subtitles, sentence_index) == batch_subtitles[sentence_index + 1]

\* AIExerciseGenerator.parse_batch_ai_response: Optional[List]
parse_batch_ai_response(response, batch_subtitles, batch_start_index, total_subtitles) ==
    IF response.kind = "garbage" THEN None
    ELSE
      LET exercises_data == response.exercises
          valid == SelectSeq(exercises_data,
                     LAMBDA e : IndexValid(SentenceIndex(e), batch_subtitles))
          results ==
            [i \in DOMAIN valid |->
               LET sentence_index == SentenceIndex(valid[i])
                   subtitle == BatchSegment(batch_subtitles, sentence_index)
               IN  ExerciseRecord(subtitle,
                                  validate_blanks(valid[i].blanks, subtitle.text).value,
                                  batch_start_index + sentence_index + 1,
                                  total_subtitles)]
      IN  IF \E i \in DOMAIN valid :
               validate_blanks(valid[i].blanks,
                               BatchSegment(batch_subtitles, SentenceIndex(valid[i])).text).raised
          THEN None
          ELSE IF results = <<>> THEN None ELSE Some(results)

\* ------------------------------------------------- the remote service

\* one entry of a "blanks" array as the service wrote it
Claim(p, w) ==
    [has_position |-> TRUE, position_is_int |-> TRUE, position |-> p,
     has_word |-> TRUE, word |-> w, has_hint |-> TRUE,
     has_difficulty |-> TRUE, difficulty |-> "easy"]

\* the stripped word at 0-based position p, or '' past the end
WordAt(words, p) == IF 0 <= p /\ p < Len(words) THEN GateStrip(words[p + 1]) ELSE <<>>

\* the ways the service fills the "blanks" array of one sentence
ClaimStyles ==
    {"none", "first", "bare", "shout", "last_first", "twice", "raw", "wrong",
     "range", "badtype"}

StyleClaims(style, text) ==
    LET words == Split(text)
        n == Len(words)
    IN  CASE style = "none"  -> <<>>
          \* the first word, as the gate expects it
          [] style = "first" -> <<Claim(0, WordAt(words, 0))>>
          \* the first word with only the keys position and word
          [] style = "bare"  ->
               <<[Claim(0, WordAt(words, 0)) EXCEPT !.has_hint = FALSE,
                                                   !.has_difficulty = FALSE]>>
          \* the first word in capitals, padded with a blank
          [] style = "shout" -> <<Claim(0, <<" ">> \o Upper(WordAt(words, 0)))>>
          \* the last word, then the first
          [] style = "last_first" ->
               <<Claim(n - 1, WordAt(words, n - 1)), Claim(0, WordAt(words, 0))>>
          \* the first word named twice
          [] style = "twice" -> <<Claim(0, WordAt(words, 0)), Claim(0, WordAt(words, 0))>>
          \* the first word with its punctuation left on
          [] style = "raw"   -> <<Claim(0, IF n > 0 THEN words[1] ELSE <<>>)>>
          \* a word the sentence does not hold
          [] style = "wrong" -> <<Claim(0, <<"x","y","z">>)>>
          \* a position past the end, and an entry without position
          [] style = "range" ->
               <<Claim(n, WordAt(words, 0)),
                 [Claim(0, WordAt(words, 0)) EXCEPT !.has_position = FALSE]>>
          \* a position that is a string
          [] style = "badtype" ->
               <<[Claim(0, WordAt(words, 0)) EXCEPT !.position_is_int = FALSE]>>

\* call_ai_service returned None (or an empty content)
NoResponse == [kind |-> "none", blanks |-> <<>>, exercises |-> <<>>]

\* content that json.loads rejects
Garbage == [kind |-> "garbage", blanks |-> <<>>, exercises |-> <<>>]

\* content of the single-sentence form {"blanks": [...]}
JsonBlanks(blanks) == [kind |-> "json", blanks |-> blanks, exercises |-> <<>>]

\* content of the batch form {"exercises": [...]}
JsonExercises(exercises) == [kind |-> "json", blanks |-> <<>>, exercises |-> exercises]

\* what call_ai_service can return for the prompt of one sentence
SingleResponses(text) ==
    {NoResponse, Garbage} \cup {JsonBlanks(StyleClaims(s, text)) : s \in ClaimStyles}

\* the sentence_index values of a batch response, as the service numbers
\* them (1-based); 0 - 1 stands for an entry without the key
IndexPatterns(len) ==
    { [i \in 1..len |-> i],                       \* every sentence, in order
      [i \in 1..len |-> len + 1 - i],             \* every sentence, last first
      [i \in 1..((len + 1) \div 2) |-> 2 * i - 1],\* sentences 1, 3, 5, ...
      <<>>,                                       \* no exercise at all
      <<0, len + 1>>,                             \* only indices out of range
      <<len + 1, 1>>,                             \* one out of range, then 1
      <<1, 1>>,                                   \* sentence 1 twice
      <<0 - 1>> }                                 \* no sentence_index key

ExerciseEntry(idx, blanks) ==
    [has_index |-> idx >= 0, sentence_index |-> idx, blanks |-> blanks]

\* what call_ai_service can return for the prompt of a batch
BatchResponses(batch_subtitles) ==
    {NoResponse, Garbage} \cup
    { JsonExercises(
        [i \in DOMAIN pat |->
           LET about == IF pat[i] < 0 THEN 1 ELSE pat[i]
           IN  ExerciseEntry(pat[i],
                 IF 1 <= about /\ about <= Len(batch_subtitles)
                 THEN StyleClaims(s, batch_subtitles[about].text)
                 ELSE StyleClaims(s, <<>>))])
      : pat \in IndexPatterns(Len(batch_subtitles)), s \in ClaimStyles }

\* ------------------------------------------------- the two generators

\* AIExerciseGenerator.generate_batch_exercises: Optional[List]
generate_batch_exercises(response, batch_subtitles, batch_start_index, total_subtitles) ==
    IF response.kind = "none" THEN None
    ELSE parse_batch_ai_response(response, batch_subtitles, batch_start_index,
                                 total_subtitles)

\* AIExerciseGenerator.generate_single_exercise: every Optional[Dict] it can
\* return for a response
generate_single_exercise(response, subtitle, current, total) ==
    IF response.kind = "none" THEN {None}
    ELSE {Some(ExerciseRecord(subtitle, blanks_data, current, total))
          : blanks_data \in parse_ai_response(response, subtitle.text)}

\* a faulty variant: the percentage taken of the batch size instead of the
\* number of subtitles
ProgressOfBatchSize(batch_end, total_subtitles) == (batch_end * 100) \div batch_size

\* generate_exercises: int((batch_end) / total_subtitles * 100)
Progress(batch_end, total_subtitles) == (batch_end * 100) \div total_subtitles

\* ------------------------------------------- the min-blanks repair pass

\* _ensure_min_blanks: the positions random.choice draws from
RepairCandidates(cleaned) ==
    LET long == {i \in DOMAIN cleaned :
                   Len(cleaned[i]) >= 3 /\ Lower(cleaned[i]) \notin stopwords}
    IN  IF long # {} THEN {i - 1 : i \in long}
        ELSE {i - 1 : i \in {j \in DOMAIN cleaned : Len(cleaned[j]) >= 1}}

\* a faulty variant: an item that has blanks is not passed over
RepairItemAlways(item) ==
    LET words == Split(item.original_text)
        cleaned == [i \in DOMAIN words |-> RegexClean(words[i])]
        candidates == RepairCandidates(cleaned)
    IN  IF words = <<>>
        THEN {[raised |-> FALSE, item |-> item]}
        ELSE IF candidates = {}
        THEN {[raised |-> TRUE, item |-> item]}
        ELSE { LET ans == cleaned[pos + 1]
               IN  [raised |-> FALSE,
                    item |-> IF ans = <<>> THEN item
                             ELSE [item EXCEPT !.blanks =
                                     <<[position   |-> pos,
                                        answer     |-> ans,
                                        hint       |-> LettersHint(Len(ans)),
                                        difficulty |-> "medium"]>>]]
               : pos \in candidates }

\* _ensure_min_blanks, one item of the loop: every [raised, item] it can
\* leave; random.choice raises IndexError on an empty list
RepairItem(item) ==
    LET words == Split(item.original_text)
        cleaned == [i \in DOMAIN words |-> RegexClean(words[i])]
        candidates == RepairCandidates(cleaned)
    IN  IF item.blanks # <<>> \/ words = <<>>
        THEN {[raised |-> FALSE, item |-> item]}
        ELSE IF candidates = {}
        THEN {[raised |-> TRUE, item |-> item]}
        ELSE { LET ans == cleaned[pos + 1]
               IN  [raised |-> FALSE,
                    item |-> IF ans = <<>> THEN item
                             ELSE [item EXCEPT !.blanks =
                                     <<[position   |-> pos,
                                        answer     |-> ans,
                                        hint       |-> LettersHint(Len(ans)),
                                        difficulty |-> "medium"]>>]]
               : pos \in candidates }

RECURSIVE EnsureFrom(_, _)
\* the loop of _ensure_min_blanks from item k on; the list is changed in place
EnsureFrom(exercises, k) ==
    IF k > Len(exercises) THEN {[raised |-> FALSE, value |-> exercises]}
    ELSE UNION { IF r.raised THEN {[raised |-> TRUE, value |-> exercises]}
                 ELSE EnsureFrom([exercises EXCEPT ![k] = r.item], k + 1)
                 : r \in RepairItem(exercises[k]) }

\* MainWindow._ensure_min_blanks: every [raised, value] it can end with
ensure_min_blanks(exercises) == EnsureFrom(exercises, 1)

\* ---------------------------------------------------------------- state

VARIABLES
    subtitles,                \* SubtitleParser.subtitles, the dialog's self.subtitles
    ai_config_ok,             \* config: ai_service.api_key and api_url are both set
    dialog,                   \* ExerciseConfigDialog: "open", "generating", "accepted"
    exercise_config,          \* the thread's exercise_config (generation_mode, use_spacy)
    pc,                       \* AIExerciseThread: "none", "ready", "batch", "single", "done"
    batch_start,              \* generate_exercises: batch_start
    i,                        \* generate_exercises: i of the per-sentence loop
    exercises,                \* generate_exercises: exercises
    emitted,                  \* the signals the generator has emitted for this request
    queue,                    \* the signals queued for the dialog's thread
    calls,                    \* the remote calls of this request: batch or single, the
                              \* 0-based place of the first segment asked about, and
                              \* whether the generator got a result from it
    reconciled,               \* on_exercises_generated: has run, raised, the list handed over
    generated_exercises,      \* MainWindow.generated_exercises
    exercise_mode,            \* MainWindow.exercise_mode
    current_exercise_index,   \* MainWindow.current_exercise_index
    current_exercise_subtitle, \* MainWindow.current_exercise_subtitle: 0, or its place in subtitles
    fn,                       \* a function called on its own: its name and arguments
    out,                      \* what that call returned
    dialogs,                  \* the ExerciseConfigDialog objects made so far: shown or
                              \* hidden, their ai_thread, their Generate button
    threads,                  \* the AIExerciseThread objects made so far
    events,                   \* the signals of all threads queued for the main thread
    delivered,                \* the signals the main thread has handled, in order
    installed                 \* the threads whose exercises reached on_exercises_generated

worker_vars == <<pc, batch_start, i, exercises, emitted, calls>>

window_vars ==
    <<reconciled, generated_exercises, exercise_mode, current_exercise_index,
      current_exercise_subtitle>>

dialog_vars == <<dialogs, threads, events, delivered, installed>>

harness_vars == <<fn, out, dialog_vars>>

request_vars ==
    <<subtitles, ai_config_ok, dialog, exercise_config, pc, batch_start, i, exercises,
      emitted, queue, calls, reconciled, generated_exercises, exercise_mode,
      current_exercise_index, current_exercise_subtitle>>

vars == <<request_vars, harness_vars>>

\* no function is being called on its own
NoCall == [name |-> "none"]

NotReturned == [returned |-> FALSE]

Returned(v) == [returned |-> TRUE, value |-> v]

\* no dialog has been opened
NoDialogs ==
    /\ dialogs = <<>>
    /\ threads = <<>>
    /\ events = <<>>
    /\ delivered = <<>>
    /\ installed = <<>>

\* the userData of ExerciseConfigDialog.mode_combo
GenerationModes == {"hybrid", "spacy", "ai"}

\* what the user has chosen when Generate is clicked: a mode, and the spaCy
\* box (ticked when the dialog opens; it decides only in the mode "spacy")
Selections ==
    {[mode |-> m, use_spacy |-> TRUE] : m \in GenerationModes}
      \cup {[mode |-> "spacy", use_spacy |-> FALSE]}

\* the signals of AIExerciseGenerator
Started == [type |-> "started", value |-> 0, success |-> FALSE]

ProgressUpdated(p) == [type |-> "progress", value |-> p, success |-> FALSE]

Finished(ok) == [type |-> "finished", value |-> 0, success |-> ok]

NotReconciled == [ran |-> FALSE, raised |-> FALSE, value |-> <<>>]

Init ==
    /\ subtitles \in SubtitleLists
    /\ ai_config_ok \in BOOLEAN
    /\ dialog = "open"
    /\ exercise_config = [generation_mode |-> "hybrid", use_spacy |-> TRUE]
    /\ pc = "none"
    /\ batch_start = 0
    /\ i = 0
    /\ exercises = <<>>
    /\ emitted = <<>>
    /\ queue = <<>>
    /\ calls = <<>>
    /\ reconciled = NotReconciled
    /\ generated_exercises = <<>>
    /\ exercise_mode = FALSE
    /\ current_exercise_index = 0
    /\ current_exercise_subtitle = 0
    /\ fn = NoCall
    /\ out = NotReturned
    /\ NoDialogs

\* ------------------------------------------------------------ the dialog

\* ExerciseConfigDialog.generate_exercises: the mode the run is made in, or
\* "" when the method returns without starting one
ModeToRun(mode, use_spacy, nlp, switch) ==
    IF mode = "spacy" /\ use_spacy
    THEN (IF nlp THEN mode ELSE "")
    ELSE IF ai_config_ok THEN mode
    ELSE IF nlp /\ switch THEN "spacy"
    ELSE ""

\* ExerciseConfigDialog.generate_exercises and start_generation: the user
\* clicks Generate with a mode and the spaCy box chosen; nlp is whether
\* spacy_cloze.ensure_nlp finds a model, switch the answer to "Switch to
\* spaCy-only mode?"
GenerateClicked(mode, use_spacy, nlp, switch) ==
    /\ dialog = "open"
    /\ subtitles # <<>>
    /\ ModeToRun(mode, use_spacy, nlp, switch) # ""
    /\ dialog' = "generating"
    /\ exercise_config' =
         [generation_mode |-> ModeToRun(mode, use_spacy, nlp, switch),
          use_spacy |-> IF ai_config_ok \/ (mode = "spacy" /\ use_spacy)
                        THEN use_spacy ELSE TRUE]
    /\ pc' = "ready"
    /\ batch_start' = 0
    /\ i' = 0
    /\ exercises' = <<>>
    /\ emitted' = <<>>
    /\ calls' = <<>>
    /\ UNCHANGED <<subtitles, ai_config_ok, queue>>
    /\ UNCHANGED window_vars
    /\ UNCHANGED harness_vars

\* ------------------------------------------------------------ the worker

Emit(signals) ==
    /\ emitted' = emitted \o signals
    /\ queue' = queue \o signals

\* generate_exercises, after a batch: the next batch, or the end of the loop
\* and generation_finished.emit(True, ...)
AfterBatch(signals, new_exercises) ==
    /\ exercises' = new_exercises
    /\ i' = 0
    /\ IF batch_start + batch_size < Len(subtitles)
       THEN /\ batch_start' = batch_start + batch_size
            /\ pc' = "batch"
            /\ Emit(signals)
       ELSE /\ batch_start' = batch_start
            /\ pc' = "done"
            /\ Emit(signals \o <<Finished(TRUE)>>)

\* a faulty variant: no return after the configuration error, so that the
\* batch loop runs on after generation_finished.emit(False, ...)
WorkerStartWithoutReturn ==
    /\ pc = "ready"
    /\ IF ~ai_config_ok
       THEN Emit(<<Started, Finished(FALSE)>>)
       ELSE Emit(<<Started>>)
    /\ pc' = "batch"
    /\ UNCHANGED <<subtitles, ai_config_ok, dialog, exercise_config, batch_start, i,
                   exercises, calls>>
    /\ UNCHANGED window_vars
    /\ UNCHANGED harness_vars

\* AIExerciseThread.run, generate_exercises up to the loop: started, and
\* the check of the AI configuration
WorkerStart ==
    /\ pc = "ready"
    /\ IF ~ai_config_ok
       THEN /\ Emit(<<Started, Finished(FALSE)>>)
            /\ pc' = "done"
       ELSE /\ Emit(<<Started>>)
            /\ pc' = "batch"
    /\ UNCHANGED <<subtitles, ai_config_ok, dialog, exercise_config, batch_start, i,
                   exercises, calls>>
    /\ UNCHANGED window_vars
    /\ UNCHANGED harness_vars

\* generate_exercises, one turn of the batch loop: progress, the batch call
\* and its parsing; a batch without result enters the per-sentence loop
WorkerBatch ==
    /\ pc = "batch"
    /\ LET total_subtitles == Len(subtitles)
           batch_end == Min(batch_start + batch_size, total_subtitles)
           batch_subtitles == SubSeq(subtitles, batch_start + 1, batch_end)
           progress == ProgressUpdated(Progress(batch_end, total_subtitles))
       IN  \E response \in BatchResponses(batch_subtitles) :
             LET batch_exercises ==
                   generate_batch_exercises(response, batch_subtitles, batch_start,
                                            total_subtitles)
             IN  /\ calls' = Append(calls, [kind |-> "batch", at |-> batch_start,
                                         got |-> Truthy(batch_exercises)])
                 /\ IF Truthy(batch_exercises)
                    THEN AfterBatch(<<progress>>, exercises \o batch_exercises.value)
                    ELSE /\ Emit(<<progress>>)
                         /\ pc' = "single"
                         /\ i' = 0
                         /\ UNCHANGED <<batch_start, exercises>>
    /\ UNCHANGED <<subtitles, ai_config_ok, dialog, exercise_config>>
    /\ UNCHANGED window_vars
    /\ UNCHANGED harness_vars

\* a faulty variant: the per-sentence loop ends behind the first sentence of
\* the failed batch
WorkerSingleFirstOnly ==
    /\ pc = "single"
    /\ LET total_subtitles == Len(subtitles)
           batch_end == Min(batch_start + batch_size, total_subtitles)
           batch_subtitles == SubSeq(subtitles, batch_start + 1, batch_end)
           subtitle == batch_subtitles[i + 1]
       IN  \E response \in SingleResponses(subtitle.text) :
           \E exercise \in generate_single_exercise(response, subtitle,
                                                    batch_start + i + 1, total_subtitles) :
             /\ calls' = Append(calls, [kind |-> "single", at |-> batch_start + i,
                                        got |-> ~exercise.is_none])
             /\ AfterBatch(<<>>, IF exercise.is_none THEN exercises
                                 ELSE Append(exercises, exercise.value))
    /\ UNCHANGED <<subtitles, ai_config_ok, dialog, exercise_config>>
    /\ UNCHANGED window_vars
    /\ UNCHANGED harness_vars

\* generate_exercises, one turn of the per-sentence loop of a failed batch
WorkerSingle ==
    /\ pc = "single"
    /\ LET total_subtitles == Len(subtitles)
           batch_end == Min(batch_start + batch_size, total_subtitles)
           batch_subtitles == SubSeq(subtitles, batch_start + 1, batch_end)
           subtitle == batch_subtitles[i + 1]
       IN  \E response \in SingleResponses(subtitle.text) :
           \E exercise \in generate_single_exercise(response, subtitle,
                                                    batch_start + i + 1, total_subtitles) :
             LET appended == IF exercise.is_none THEN exercises
                             ELSE Append(exercises, exercise.value)
             IN  /\ calls' = Append(calls, [kind |-> "single", at |-> batch_start + i,
                                         got |-> ~exercise.is_none])
                 /\ IF i + 1 < Len(batch_subtitles)
                    THEN /\ i' = i + 1
                         /\ exercises' = appended
                         /\ UNCHANGED <<pc, batch_start, emitted, queue>>
                    ELSE AfterBatch(<<>>, appended)
    /\ UNCHANGED <<subtitles, ai_config_ok, dialog, exercise_config>>
    /\ UNCHANGED window_vars
    /\ UNCHANGED harness_vars

\* generate_exercises, except Exception: the progress line written to a
\* closed standard output raises inside the loop
WorkerException ==
    /\ pc = "batch"
    /\ LET total_subtitles == Len(subtitles)
           batch_end == Min(batch_start + batch_size, total_subtitles)
       IN  Emit(<<ProgressUpdated(Progress(batch_end, total_subtitles)), Finished(FALSE)>>)
    /\ pc' = "done"
    /\ UNCHANGED <<subtitles, ai_config_ok, dialog, exercise_config, batch_start, i,
                   exercises, calls>>
    /\ UNCHANGED window_vars
    /\ UNCHANGED harness_vars

\* ------------------------------------------- the dialog's thread: slots

\* on_generation_started, and progress_bar.setValue
DeliverNotice ==
    /\ queue # <<>>
    /\ Head(queue).type \in {"started", "progress"}
    /\ queue' = Tail(queue)
    /\ UNCHANGED <<subtitles, ai_config_ok, dialog, exercise_config>>
    /\ UNCHANGED worker_vars
    /\ UNCHANGED harness_vars
    /\ UNCHANGED window_vars

\* on_generation_finished(False, ...): the button is enabled again
DeliverFailure ==
    /\ queue # <<>>
    /\ Head(queue).type = "finished"
    /\ ~Head(queue).success
    /\ queue' = Tail(queue)
    /\ dialog' = "open"
    /\ UNCHANGED <<subtitles, ai_config_ok, exercise_config>>
    /\ UNCHANGED worker_vars
    /\ UNCHANGED harness_vars
    /\ UNCHANGED window_vars

\* MainWindow.play_current_subtitle
PlayCurrentSubtitle(index) ==
    IF index >= Len(subtitles) THEN current_exercise_subtitle
    ELSE index + 1

\* MainWindow.show_current_exercise, called by on_position_changed when the
\* played subtitle has reached its end: the original_text of the exercise
\* handed to exercise_widget.show_exercise, which is the generated exercise
\* at current_exercise_index or, past the end of the list, the mock exercise
\* made of the played subtitle
show_current_exercise ==
    IF generated_exercises # <<>> /\ current_exercise_index < Len(generated_exercises)
    THEN generated_exercises[current_exercise_index + 1].original_text
    ELSE subtitles[current_exercise_subtitle].text

\* on_generation_finished(True, ...): exercises_generated reaches
\* MainWindow.on_exercises_generated, which runs _ensure_min_blanks, installs
\* the list and asks whether to start; then the dialog is accepted.  An
\* IndexError of the repair pass ends the slot where it is raised.
DeliverSuccess ==
    /\ queue # <<>>
    /\ Head(queue).type = "finished"
    /\ Head(queue).success
    /\ queue' = Tail(queue)
    /\ dialog' = "accepted"
    /\ \E r \in ensure_min_blanks(exercises) :
         /\ reconciled' = [ran |-> TRUE, raised |-> r.raised, value |-> r.value]
         /\ IF r.raised
            THEN UNCHANGED <<generated_exercises, exercise_mode, current_exercise_index,
                             current_exercise_subtitle>>
            ELSE /\ generated_exercises' = r.value
                 /\ \E reply \in BOOLEAN :
                      IF reply
                      THEN /\ current_exercise_index' = 0
                           /\ exercise_mode' = TRUE
                           /\ current_exercise_subtitle' = PlayCurrentSubtitle(0)
                      ELSE UNCHANGED <<exercise_mode, current_exercise_index,
                                       current_exercise_subtitle>>
    /\ UNCHANGED <<subtitles, ai_config_ok, exercise_config>>
    /\ UNCHANGED worker_vars
    /\ UNCHANGED harness_vars

Next ==
    \/ \E sel \in Selections, nlp \in BOOLEAN, switch \in BOOLEAN :
          GenerateClicked(sel.mode, sel.use_spacy, nlp, switch)
    \/ WorkerStart
    \/ WorkerBatch
    \/ WorkerSingle
    \/ WorkerException
    \/ DeliverNotice
    \/ DeliverFailure
    \/ DeliverSuccess

Spec == Init /\ [][Next]_vars

\* ----------------------------- parse_batch_ai_response called on its own

\* the longest "exercises" array that is enumerated entry by entry
MaxEntries == 2

\* the "blanks" styles of the entries enumerated one by one
EntryStyles == {"none", "first", "badtype"}

RECURSIVE SeqsUpTo(_, _)
\* the sequences over S of length at most n
SeqsUpTo(S, n) ==
    IF n = 0 THEN {<<>>}
    ELSE LET shorter == SeqsUpTo(S, n - 1)
         IN  shorter \cup {Append(s, x) : s \in shorter, x \in S}

\* generate_exercises: the slices subtitles[batch_start:batch_end] that can be
\* handed to the batch parser, with the two numbers that go with them
Batches(c) ==
    {[batch_subtitles   |-> SubSeq(c, a, b),
      batch_start_index |-> a - 1,
      total_subtitles   |-> Len(c)]
     : a \in 1..Len(c), b \in 1..Len(c)}

BatchesOf(c) ==
    {x \in Batches(c) :
       /\ x.batch_subtitles # <<>>
       /\ Len(x.batch_subtitles) <= batch_size}

\* the entries the service can write for a batch: any sentence_index from a
\* missing key (0 - 1) over 0 to one past the end, in any of the styles
Entries(batch_subtitles) ==
    {ExerciseEntry(idx,
       StyleClaims(s, IF idx < 0 THEN batch_subtitles[1].text
                      ELSE IF 1 <= idx /\ idx <= Len(batch_subtitles)
                      THEN batch_subtitles[idx].text
                      ELSE <<>>))
     : idx \in (0 - 1)..(Len(batch_subtitles) + 1), s \in EntryStyles}

\* the calls of parse_batch_ai_response that are made on their own: every
\* batch of the short file with every response of at most MaxEntries
\* entries, and every batch of both files with the responses of a request
ParseBatchCalls ==
    UNION {{[name |-> "parse_batch_ai_response", batch |-> b,
             response |-> JsonExercises(es)]
            : es \in SeqsUpTo(Entries(b.batch_subtitles), MaxEntries)}
           : b \in BatchesOf(RichCorpus)} \cup
    UNION {{[name |-> "parse_batch_ai_response", batch |-> b, response |-> r]
            : r \in BatchResponses(b.batch_subtitles) \ {NoResponse}}
           : b \in UNION {BatchesOf(c) : c \in Corpora}}

InitParseBatch ==
    /\ fn \in ParseBatchCalls
    /\ out = NotReturned
    /\ NoDialogs
    /\ subtitles = <<>>
    /\ ai_config_ok = TRUE
    /\ dialog = "open"
    /\ exercise_config = [generation_mode |-> "hybrid", use_spacy |-> TRUE]
    /\ pc = "none"
    /\ batch_start = 0
    /\ i = 0
    /\ exercises = <<>>
    /\ emitted = <<>>
    /\ queue = <<>>
    /\ calls = <<>>
    /\ reconciled = NotReconciled
    /\ generated_exercises = <<>>
    /\ exercise_mode = FALSE
    /\ current_exercise_index = 0
    /\ current_exercise_subtitle = 0

\* generate_batch_exercises: batch_results = self.parse_batch_ai_response(...)
CallParseBatch ==
    /\ fn.name = "parse_batch_ai_response"
    /\ ~out.returned
    /\ out' = Returned(parse_batch_ai_response(fn.response, fn.batch.batch_subtitles,
                                               fn.batch.batch_start_index,
                                               fn.batch.total_subtitles))
    /\ UNCHANGED fn
    /\ UNCHANGED request_vars
    /\ UNCHANGED dialog_vars

NextParseBatch == CallParseBatch

SpecParseBatch == InitParseBatch /\ [][NextParseBatch]_vars

\* ------------------------------- dialogs and their threads, side by side

\* the most dialogs opened one after the other
MaxDialogs == 2

\* the most threads started
MaxThreads == 2

\* the state of a request when nothing is looked at but the dialogs: a
\* subtitle file is loaded (show_exercise_config opens no dialog without)
IdleRequest ==
    /\ dialog = "open"
    /\ exercise_config = [generation_mode |-> "hybrid", use_spacy |-> TRUE]
    /\ pc = "none"
    /\ batch_start = 0
    /\ i = 0
    /\ exercises = <<>>
    /\ emitted = <<>>
    /\ queue = <<>>
    /\ calls = <<>>
    /\ reconciled = NotReconciled
    /\ generated_exercises = <<>>
    /\ exercise_mode = FALSE
    /\ current_exercise_index = 0
    /\ current_exercise_subtitle = 0

InitDialogs ==
    /\ subtitles = SubSeq(RichCorpus, 1, 1)
    /\ ai_config_ok \in BOOLEAN
    /\ IdleRequest
    /\ fn = NoCall
    /\ out = NotReturned
    /\ NoDialogs

\* QThread.isRunning
IsRunning(t) == threads[t].pc \in {"ready", "started", "progress"}

\* MainWindow.show_exercise_config: dialog.exec() is modal, so a dialog is
\* opened only when none is shown
ShowExerciseConfig ==
    /\ Len(dialogs) < MaxDialogs
    /\ \A d \in DOMAIN dialogs : ~dialogs[d].visible
    /\ dialogs' = Append(dialogs, [visible |-> TRUE, ai_thread |-> 0, enabled |-> TRUE])
    /\ UNCHANGED <<threads, events, delivered, installed>>
    /\ UNCHANGED <<fn, out>>
    /\ UNCHANGED request_vars

\* ExerciseConfigDialog.generate_exercises and start_generation in dialog d:
\* the button is disabled and a new AIExerciseThread is started
DialogGenerate(d, sel, nlp, switch) ==
    /\ d \in DOMAIN dialogs
    /\ dialogs[d].visible
    /\ dialogs[d].enabled
    /\ ModeToRun(sel.mode, sel.use_spacy, nlp, switch) # ""
    /\ Len(threads) < MaxThreads
    /\ threads' = Append(threads,
                    [owner     |-> d,
                     selected  |-> sel,
                     mode      |-> ModeToRun(sel.mode, sel.use_spacy, nlp, switch),
                     pc        |-> "ready",
                     cancelled |-> FALSE])
    /\ dialogs' = [dialogs EXCEPT ![d].ai_thread = Len(threads) + 1,
                                  ![d].enabled = FALSE]
    /\ UNCHANGED <<events, delivered, installed>>
    /\ UNCHANGED <<fn, out>>
    /\ UNCHANGED request_vars

\* AIExerciseThread.run of thread t, from one signal to the next: started,
\* then finished(False) without configuration or else the progress of the
\* one batch, then finished
ThreadRun(t) ==
    /\ t \in DOMAIN threads
    /\ IsRunning(t)
    /\ CASE threads[t].pc = "ready" ->
              /\ events' = Append(events, [thread |-> t, signal |-> Started])
              /\ threads' = [threads EXCEPT ![t].pc = "started"]
         [] threads[t].pc = "started" /\ ~ai_config_ok ->
              /\ events' = Append(events, [thread |-> t, signal |-> Finished(FALSE)])
              /\ threads' = [threads EXCEPT ![t].pc = "ended"]
         [] threads[t].pc = "started" /\ ai_config_ok ->
              /\ events' = Append(events, [thread |-> t, signal |-> ProgressUpdated(100)])
              /\ threads' = [threads EXCEPT ![t].pc = "progress"]
         [] threads[t].pc = "progress" ->
              \E ok \in BOOLEAN :
                /\ events' = Append(events, [thread |-> t, signal |-> Finished(ok)])
                /\ threads' = [threads EXCEPT ![t].pc = "ended"]
    /\ UNCHANGED <<dialogs, delivered, installed>>
    /\ UNCHANGED <<fn, out>>
    /\ UNCHANGED request_vars

\* the main thread handles the next queued signal in the dialog that owns
\* the thread: on_generation_started, progress_bar.setValue, or
\* on_generation_finished, which enables the button and, on success, emits
\* exercises_generated to MainWindow.on_exercises_generated and accepts
DeliverEvent ==
    /\ events # <<>>
    /\ LET e == Head(events)
           d == threads[e.thread].owner
       IN  /\ events' = Tail(events)
           /\ delivered' = Append(delivered,
                             [thread |-> e.thread, signal |-> e.signal,
                              cancelled |-> threads[e.thread].cancelled])
           /\ IF e.signal.type # "finished"
              THEN UNCHANGED <<dialogs, installed>>
              ELSE IF e.signal.success
              THEN /\ installed' = Append(installed, e.thread)
                   /\ dialogs' = [dialogs EXCEPT ![d].enabled = TRUE,
                                                 ![d].visible = FALSE]
              ELSE /\ dialogs' = [dialogs EXCEPT ![d].enabled = TRUE]
                   /\ UNCHANGED installed
    /\ UNCHANGED threads
    /\ UNCHANGED <<fn, out>>
    /\ UNCHANGED request_vars

\* the Cancel button of dialog d: QDialog.reject hides the dialog; closeEvent
\* is not called, and the thread is left as it is
CancelClicked(d) ==
    /\ d \in DOMAIN dialogs
    /\ dialogs[d].visible
    /\ dialogs' = [dialogs EXCEPT ![d].visible = FALSE]
    /\ threads' = [t \in DOMAIN threads |->
                     IF dialogs[d].ai_thread = t /\ IsRunning(t)
                     THEN [threads[t] EXCEPT !.cancelled = TRUE]
                     ELSE threads[t]]
    /\ UNCHANGED <<events, delivered, installed>>
    /\ UNCHANGED <<fn, out>>
    /\ UNCHANGED request_vars

\* ExerciseConfigDialog.closeEvent of dialog d: a running thread is
\* terminated and waited for
CloseClicked(d) ==
    /\ d \in DOMAIN dialogs
    /\ dialogs[d].visible
    /\ dialogs' = [dialogs EXCEPT ![d].visible = FALSE]
    /\ threads' = [t \in DOMAIN threads |->
                     IF dialogs[d].ai_thread = t /\ IsRunning(t)
                     THEN [threads[t] EXCEPT !.cancelled = TRUE, !.pc = "terminated"]
                     ELSE threads[t]]
    /\ UNCHANGED <<events, delivered, installed>>
    /\ UNCHANGED <<fn, out>>
    /\ UNCHANGED request_vars

NextDialogs ==
    \/ ShowExerciseConfig
    \/ \E d \in 1..MaxDialogs, sel \in Selections, nlp \in BOOLEAN, switch \in BOOLEAN :
         DialogGenerate(d, sel, nlp, switch)
    \/ \E t \in 1..MaxThreads : ThreadRun(t)
    \/ DeliverEvent
    \/ \E d \in 1..MaxDialogs : CancelClicked(d)
    \/ \E d \in 1..MaxDialogs : CloseClicked(d)

SpecDialogs == InitDialogs /\ [][NextDialogs]_vars

\* ------------------------------------------ the local generator (spaCy)

\* spacy_cloze._strip_punct: the characters of its strip(); the apostrophe,
\* the backquote and the ones outside ASCII are written by code point
SpacyPunct ==
    GatePunct \cup {"U+0027", "U+0060", "-", "U+00A1", "U+00BF", "U+2026", "U+201C", "U+201D",
                    "U+2019", "U+3001", "U+00B7", "U+2014"}

\* spacy_cloze._strip_punct
strip_punct(word) == Strip(word, SpacyPunct)

\* str.isalpha for the letters of the model
IsAlpha(s) ==
    s # <<>> /\ \A k \in DOMAIN s : s[k] \in Range(LowerLetters) \cup Range(UpperLetters)

\* a spaCy token: text, is_alpha, is_stop, pos_, whether ent_iob_ is not 'O',
\* and lemma_
Token(text, is_stop, pos, ent, lemma) ==
    [text |-> text, is_alpha |-> IsAlpha(text), is_stop |-> is_stop, pos_ |-> pos,
     in_entity |-> ent, lemma_ |-> lemma]

RECURSIVE AlignWithoutAdvance(_, _, _, _)
\* a faulty variant: the cursor stays where it is after a match
AlignWithoutAdvance(norm_words, doc, j, cursor) ==
    IF j > Len(doc) THEN <<>>
    ELSE LET tok == doc[j]
             tnorm == Lower(tok.text)
             hits == {k \in (cursor + 1)..Len(norm_words) : norm_words[k] = tnorm}
         IN  IF Strip(tok.text, Whitespace) = <<>> \/ ~tok.is_alpha \/ hits = {}
             THEN <<0>> \o AlignWithoutAdvance(norm_words, doc, j + 1, cursor)
             ELSE LET found == CHOOSE k \in hits : \A h \in hits : k <= h
                  IN  <<found>> \o AlignWithoutAdvance(norm_words, doc, j + 1, cursor)

RECURSIVE AlignFrom(_, _, _, _)
\* _align_spacy_tokens_to_split_words from token j on, with the cursor at the
\* 0-based word index cursor (i in the code): for each token its 1-based word number, or 0 when
\* the token is skipped or not found
AlignFrom(norm_words, doc, j, cursor) ==
    IF j > Len(doc) THEN <<>>
    ELSE LET tok == doc[j]
             tnorm == Lower(tok.text)
             hits == {k \in (cursor + 1)..Len(norm_words) : norm_words[k] = tnorm}
         IN  IF Strip(tok.text, Whitespace) = <<>> \/ ~tok.is_alpha \/ hits = {}
             THEN <<0>> \o AlignFrom(norm_words, doc, j + 1, cursor)
             ELSE LET found == CHOOSE k \in hits : \A h \in hits : k <= h
                  IN  <<found>> \o AlignFrom(norm_words, doc, j + 1, found)

\* spacy_cloze._align_spacy_tokens_to_split_words
align_spacy_tokens_to_split_words(text, doc) ==
    LET words == Split(text)
        norm_words == [k \in DOMAIN words |-> Lower(strip_punct(words[k]))]
    IN  AlignFrom(norm_words, doc, 1, 0)

\* the part-of-speech tags every mask lets through
OpenClasses == {"NOUN", "PROPN", "VERB", "ADJ", "ADV"}

\* spacy_cloze._candidate_mask; allowed_pos = {} stands for None or []
candidate_mask(pos, allowed_pos, focus_areas) ==
    IF allowed_pos # {} THEN pos \in allowed_pos
    ELSE IF focus_areas = {} THEN pos \in OpenClasses
    ELSE \/ ("nouns" \in focus_areas /\ pos \in {"NOUN", "PROPN"})
         \/ ("verbs" \in focus_areas /\ pos \in {"VERB", "AUX"})
         \/ ("adjectives" \in focus_areas /\ pos = "ADJ")
         \/ ("adverbs" \in focus_areas /\ pos = "ADV")
         \/ pos \in OpenClasses

\* spacy_cloze._difficulty_by_len
difficulty_by_len(s) ==
    IF Len(s) <= 4 THEN "easy" ELSE IF Len(s) <= 7 THEN "medium" ELSE "hard"

\* Python's order of tuples of numbers: a < b
TupleLess(a, b) ==
    \E k \in DOMAIN a :
      /\ k \in DOMAIN b
      /\ a[k] < b[k]
      /\ \A h \in 1..(k - 1) : a[h] = b[h]

RECURSIVE InsertDesc(_, _)
\* x put into the descending list s behind every item whose key is not less
InsertDesc(s, x) ==
    IF s = <<>> THEN <<x>>
    ELSE IF TupleLess(Head(s).key, x.key) THEN <<x>> \o s
    ELSE <<Head(s)>> \o InsertDesc(Tail(s), x)

RECURSIVE StableDesc(_)
\* the items by descending key, items of equal key in their given order
StableDesc(items) ==
    IF items = <<>> THEN <<>>
    ELSE InsertDesc(StableDesc(SubSeq(items, 1, Len(items) - 1)), items[Len(items)])

\* the orders of the items in which no key is followed by a greater one
DescOrders(items) ==
    {[k \in DOMAIN items |-> items[p[k]]] :
       p \in {q \in [DOMAIN items -> DOMAIN items] :
                /\ \A a \in DOMAIN items, b \in DOMAIN items : q[a] = q[b] => a = b
                /\ \A a \in DOMAIN items, b \in DOMAIN items :
                     a < b => ~TupleLess(items[q[a]].key, items[q[b]].key)}}

\* a faulty variant: a sort that does not keep items of equal key in order
SortedAnyTieOrder(items) == DescOrders(items)

\* sorted(items, key=..., reverse=True) for items that carry their key: every
\* list it can return.  Python's sort is stable, also with reverse=True
Sorted(items) == {StableDesc(items)}

\* select_blanks_spacy: 1 for a token inside an entity or tagged PROPN, when
\* entities are preferred
EntBonus(tok, config) ==
    IF config.prefer_entities /\ (tok.in_entity \/ tok.pos_ = "PROPN") THEN 1 ELSE 0

\* select_blanks_spacy: one of its two "collect candidates" loops, the first
\* (masked) with the part-of-speech mask and the second without; the pairs
\* (widx, tok) in the order of the doc
Candidates(doc, align, words, config, masked) ==
    LET Eligible(j) ==
          /\ align[j] # 0
          /\ doc[j].is_alpha
          /\ ~(config.exclude_stop /\ doc[j].is_stop)
          /\ masked => candidate_mask(doc[j].pos_, config.allowed_pos, config.focus_areas)
          /\ strip_punct(words[align[j]]) # <<>>
        chosen == SelectSeq([j \in DOMAIN doc |-> j], Eligible)
    IN  [k \in DOMAIN chosen |-> [widx |-> align[chosen[k]] - 1, tok |-> doc[chosen[k]]]]

RECURSIVE SetDefault(_, _)
\* by_index.setdefault(widx, tok) over the pairs in order: the first pair of
\* each word index is kept; a dict keeps the order of insertion
SetDefault(pairs, seen) ==
    IF pairs = <<>> THEN <<>>
    ELSE IF Head(pairs).widx \in seen THEN SetDefault(Tail(pairs), seen)
    ELSE <<Head(pairs)>> \o SetDefault(Tail(pairs), seen \cup {Head(pairs).widx})

Max(a, b) == IF a >= b THEN a ELSE b

\* select_blanks_spacy: target
Target(words, config) ==
    IF config.max_blanks > 0 THEN config.max_blanks
    ELSE Max(1, Min(2, Max(1, (Len(words) * config.blank_density) \div 100)))

\* select_blanks_spacy: the hint, as its parts: the label of the tag, the
\* lemma when it is asked for and differs from the answer, the first letter
Hint(tok, answer, config) ==
    <<[part |-> "pos", of |-> <<tok.pos_>>]>>
      \o (IF config.hint_lemma /\ tok.lemma_ # <<>> /\ Lower(tok.lemma_) # Lower(answer)
          THEN <<[part |-> "lemma", of |-> Lower(tok.lemma_)]>> ELSE <<>>)
      \o <<[part |-> "first", of |-> <<LowerChar(answer[1])>>]>>

\* select_blanks_spacy: the blanks of a selection; a word that strips to
\* nothing is passed over
BlanksOf(selection, words, config) ==
    LET kept == SelectSeq(selection, LAMBDA c : strip_punct(words[c.widx + 1]) # <<>>)
    IN  [k \in DOMAIN kept |->
           LET answer == strip_punct(words[kept[k].widx + 1])
           IN  [position   |-> kept[k].widx,
                answer     |-> answer,
                hint       |-> Hint(kept[k].tok, answer, config),
                difficulty |-> difficulty_by_len(answer)]]

\* spacy_cloze.select_blanks_spacy for a text and the doc the tokenizer made
\* of it: every list it can return; nlp is whether ensure_nlp finds a model
select_blanks_spacy(text, doc, config, nlp) ==
    LET words == Split(text)
        align == align_spacy_tokens_to_split_words(text, doc)
        first == Candidates(doc, align, words, config, TRUE)
        candidates == IF first # <<>> THEN first
                      ELSE Candidates(doc, align, words, config, FALSE)
        rankcand == [k \in DOMAIN candidates |->
                       [key |-> <<EntBonus(candidates[k].tok, config),
                                  Len(candidates[k].tok.text),
                                  0 - candidates[k].widx>>,
                        item |-> candidates[k]]]
    IN  IF ~nlp \/ candidates = <<>> THEN {<<>>}
        ELSE UNION {
               LET by_index == SetDefault([k \in DOMAIN ranked |-> ranked[k].item], {})
                   rankfinal == [k \in DOMAIN by_index |->
                                   [key |-> <<EntBonus(by_index[k].tok, config),
                                              Len(by_index[k].tok.text)>>,
                                    item |-> by_index[k]]]
               IN  { LET target == Target(words, config)
                         selection == SubSeq([k \in DOMAIN final |-> final[k].item], 1,
                                             Min(target, Len(final)))
                     IN  BlanksOf(selection, words, config)
                     : final \in Sorted(rankfinal) }
               : ranked \in Sorted(rankcand) }

\* ------------------------------- select_blanks_spacy called on its own

\* the longest doc enumerated token by token
MaxTokens == 2

\* "Hola gato."
TextHolaGato == <<"H","o","l","a"," ","g","a","t","o",".">>

\* "Hi."
TextHi == <<"H","i",".">>

LocalTexts ==
    {TextHolaGato, TextHi, <<"e","l"," ","g","a","t","o">>,
     <<"H","o","l","a"," ","e","l"," ","g","a","t","o">>}

\* the tokens a tokenizer makes of these texts, with the tags it may give
TokenPool ==
    { Token(<<"H","o","l","a">>, FALSE, "NOUN", FALSE, <<"h","o","l","a">>),
      Token(<<"H","o","l","a">>, FALSE, "PROPN", TRUE, <<"H","o","l","a">>),
      Token(<<"g","a","t","o">>, FALSE, "NOUN", FALSE, <<"g","a","t","o">>),
      Token(<<"g","a","t","o">>, FALSE, "VERB", FALSE, <<"g","a","t","e","a","r">>),
      Token(<<"e","l">>, TRUE, "DET", FALSE, <<"e","l">>),
      Token(<<"H","i">>, FALSE, "INTJ", FALSE, <<"h","i">>),
      Token(<<".">>, FALSE, "PUNCT", FALSE, <<".">>) }

\* the configurations: spacy_options (pos, exclude_stop, hint_lemma,
\* prefer_entities, max_blanks), focus_areas and blank_density
LocalConfigs ==
    { [allowed_pos |-> m.allowed_pos, focus_areas |-> m.focus_areas, exclude_stop |-> es,
       hint_lemma |-> hl, prefer_entities |-> pe, max_blanks |-> mb.max_blanks,
       blank_density |-> mb.blank_density]
      : m \in {[allowed_pos |-> {}, focus_areas |-> {}],
               [allowed_pos |-> {"NOUN"}, focus_areas |-> {}],
               [allowed_pos |-> {}, focus_areas |-> {"verbs"}]},
        es \in BOOLEAN, hl \in BOOLEAN, pe \in BOOLEAN,
        mb \in {[max_blanks |-> 0, blank_density |-> 25],
                [max_blanks |-> 0, blank_density |-> 50],
                [max_blanks |-> 1, blank_density |-> 25],
                [max_blanks |-> 2, blank_density |-> 25]} }

LocalCalls ==
    { [name |-> "select_blanks_spacy", text |-> t, doc |-> d, config |-> c, nlp |-> n]
      : t \in LocalTexts, d \in SeqsUpTo(TokenPool, MaxTokens), c \in LocalConfigs,
        n \in {TRUE} }

InitLocal ==
    /\ fn \in LocalCalls
    /\ out = NotReturned
    /\ subtitles = <<>>
    /\ ai_config_ok = TRUE
    /\ IdleRequest
    /\ NoDialogs

\* the first call of select_blanks_spacy
CallLocal ==
    /\ fn.name = "select_blanks_spacy"
    /\ ~out.returned
    /\ \E blanks \in select_blanks_spacy(fn.text, fn.doc, fn.config, fn.nlp) :
         out' = Returned(<<blanks>>)
    /\ UNCHANGED fn
    /\ UNCHANGED request_vars
    /\ UNCHANGED dialog_vars

\* a second call with the same text, configuration and doc
CallLocalAgain ==
    /\ fn.name = "select_blanks_spacy"
    /\ out.returned
    /\ Len(out.value) = 1
    /\ \E blanks \in select_blanks_spacy(fn.text, fn.doc, fn.config, fn.nlp) :
         out' = Returned(Append(out.value, blanks))
    /\ UNCHANGED fn
    /\ UNCHANGED request_vars
    /\ UNCHANGED dialog_vars

NextLocal == CallLocal \/ CallLocalAgain

SpecLocal == InitLocal /\ [][NextLocal]_vars

\* ----------------------------------------------- the repair of responses

\* the quote character
Quote == "\""

\* \s of a regular expression, among the characters of the model
RegexSpace == {" ", "\t", "\n", "\r", "\f", "U+000B"}

\* [\x00-\x08\x0B\x0C\x0E-\x1F\x7F], among the characters of the model
ControlChars == {"U+0001", "U+000B", "\f", "U+007F"}

RECURSIVE RunEnd(_, _)
\* the first place from p on that holds no \s character, Len(s) + 1 if none
RunEnd(s, p) ==
    IF p > Len(s) THEN p
    ELSE IF s[p] \in RegexSpace THEN RunEnd(s, p + 1)
    ELSE p

RECURSIVE SubQuoteBreak(_, _)
\* re.sub(r'"\s*\n\s*', '"', s) from place p on: a quote and the run of
\* spaces behind it, when the run holds a line break, become the quote
SubQuoteBreak(s, p) ==
    IF p > Len(s) THEN <<>>
    ELSE LET e == RunEnd(s, p + 1)
         IN  IF s[p] = Quote /\ \E k \in (p + 1)..(e - 1) : s[k] = "\n"
             THEN <<Quote>> \o SubQuoteBreak(s, e)
             ELSE <<s[p]>> \o SubQuoteBreak(s, p + 1)

RECURSIVE SubBreakThen(_, _, _)
\* re.sub(r'\n\s*"', '"', s) from place p on, for close = the quote: a line
\* break, the spaces behind it and the character close become close
SubBreakThen(s, p, close) ==
    IF p > Len(s) THEN <<>>
    ELSE LET e == RunEnd(s, p + 1)
         IN  IF s[p] = "\n" /\ e <= Len(s) /\ s[e] = close
             THEN <<close>> \o SubBreakThen(s, e + 1, close)
             ELSE <<s[p]>> \o SubBreakThen(s, p + 1, close)

RECURSIVE SubCommaThen(_, _, _)
\* re.sub(r',\s*}', '}', s) and re.sub(r',\s*]', ']', s) from place p on: a
\* comma, the spaces behind it and the character close become close
SubCommaThen(s, p, close) ==
    IF p > Len(s) THEN <<>>
    ELSE LET e == RunEnd(s, p + 1)
         IN  IF s[p] = "," /\ e <= Len(s) /\ s[e] = close
             THEN <<close>> \o SubCommaThen(s, e + 1, close)
             ELSE <<s[p]>> \o SubCommaThen(s, p + 1, close)

\* _fix_json_format: "ensure JSON completeness".  RFind is s.rfind(c, 0, stop)
\* as a 1-based place (0 when c is absent); the tests last_brace > 0 and
\* last_bracket > 0 of the code are on 0-based places
Complete(s) ==
    LET RFind(c, stop) ==
            LET at == {k \in 1..Min(stop, Len(s)) : s[k] = c}
            IN  IF at = {} THEN 0 ELSE CHOOSE k \in at : \A h \in at : h <= k
        stripped == Strip(s, Whitespace)
        EndsWithBrace == stripped # <<>> /\ stripped[Len(stripped)] = "}"
        last_brace == RFind("}", Len(s))
        last_bracket == RFind("]", last_brace)
    IN  IF ~EndsWithBrace /\ last_brace > 1 /\ last_bracket > 1
        THEN SubSeq(s, 1, last_bracket) \o <<"}">>
        ELSE s

\* AIExerciseGenerator._fix_json_format
fix_json_format(response) ==
    LET BOM == "U+FEFF"
        no_bom == IF response # <<>> /\ response[1] = BOM THEN Tail(response)
                  ELSE response
        joined == SubBreakThen(SubQuoteBreak(no_bom, 1), 1, Quote)
        clean == SelectSeq(joined, LAMBDA c : c \notin ControlChars)
        commas == SubCommaThen(SubCommaThen(clean, 1, "}"), 1, "]")
    IN  Strip(Complete(commas), Whitespace)

\* ---------------------------------------------------------- json.loads

\* the characters json.loads skips between tokens
JsonSpace == {" ", "\t", "\n", "\r"}

\* json.loads(s) returns a value instead of raising JSONDecodeError.  Values
\* are strings, whole numbers, arrays and objects; a string may hold no
\* character below U+0020 (the model has no backslash).  Each Parse operator
\* gives the place behind what it read, or 0 when json.loads raises
JsonParses(s) ==
    LET JsonControl == {"\t", "\n", "\r", "\f", "U+0001", "U+000B"}
        Holds(p, c) == p >= 1 /\ p <= Len(s) /\ s[p] = c
        RECURSIVE SkipSpace(_)
        SkipSpace(p) ==
            IF p > Len(s) THEN p
            ELSE IF s[p] \in JsonSpace THEN SkipSpace(p + 1)
            ELSE p
        ParseString(p) ==
            LET closing == {q \in (p + 1)..Len(s) : s[q] = Quote}
            IN  IF ~Holds(p, Quote) \/ closing = {} THEN 0
                ELSE LET q == CHOOSE x \in closing : \A y \in closing : x <= y
                     IN  IF \E k \in (p + 1)..(q - 1) : s[k] \in JsonControl
                         THEN 0 ELSE q + 1
        RECURSIVE DigitsEnd(_)
        DigitsEnd(p) ==
            IF p > Len(s) THEN p
            ELSE IF s[p] \in Digits THEN DigitsEnd(p + 1)
            ELSE p
        RECURSIVE ParseValue(_)
        RECURSIVE ParseMembers(_)
        RECURSIVE ParseElements(_)
        ParseValue(p) ==
            LET a == SkipSpace(p)
            IN  IF a > Len(s) THEN 0
                ELSE IF s[a] = Quote THEN ParseString(a)
                ELSE IF s[a] \in Digits THEN DigitsEnd(a)
                ELSE IF s[a] = "{"
                THEN LET b == SkipSpace(a + 1)
                     IN  IF Holds(b, "}") THEN b + 1 ELSE ParseMembers(b)
                ELSE IF s[a] = "["
                THEN LET b == SkipSpace(a + 1)
                     IN  IF Holds(b, "]") THEN b + 1 ELSE ParseElements(b)
                ELSE 0
        ParseMembers(p) ==
            LET k == ParseString(p)
                c == SkipSpace(k)
                v == IF k # 0 /\ Holds(c, ":") THEN ParseValue(c + 1) ELSE 0
                d == SkipSpace(v)
            IN  IF v = 0 THEN 0
                ELSE IF Holds(d, "}") THEN d + 1
                ELSE IF Holds(d, ",") THEN ParseMembers(SkipSpace(d + 1))
                ELSE 0
        ParseElements(p) ==
            LET v == ParseValue(p)
                d == SkipSpace(v)
            IN  IF v = 0 THEN 0
                ELSE IF Holds(d, "]") THEN d + 1
                ELSE IF Holds(d, ",") THEN ParseElements(d + 1)
                ELSE 0
        e == ParseValue(1)
    IN  e # 0 /\ SkipSpace(e) = Len(s) + 1

\* --------------------------------- _fix_json_format called on its own

\* the longest text enumerated character by character
MaxChars == 3

\* the longest string value of the enumerated documents
MaxValueLen == 3

\* the responses _fix_json_format is called on: every text of up to MaxChars
\* characters; the documents {"a":"..."} for every value of up to MaxValueLen
\* characters, with nothing, a blank or a line break behind the colon; and
\* responses as the service sends them (an array with a comma too many, a
\* response cut off inside its second member, a byte order mark and a
\* control character, a line break before a quote)
RepairCalls ==
    LET RepairChars == {Quote, "\n", " ", ",", "}", "]", "{", "w"}
        ValueChars == {"w", ",", "}", "]", "\n"}
        Quoted(s) == <<Quote>> \o s \o <<Quote>>
        JsonDocs ==
            { <<"{">> \o Quoted(<<"a">>) \o <<":">> \o sp \o Quoted(v) \o <<"}">>
              : v \in SeqsUpTo(ValueChars, MaxValueLen),
                sp \in {<<>>, <<" ">>, <<"\n">>} }
        ServiceDocs ==
            { <<"{">> \o Quoted(<<"a">>) \o <<":", "[">> \o Quoted(<<"w">>)
                  \o <<",", " ", "]", ",", "\n", "}">>,
              <<"{">> \o Quoted(<<"a">>) \o <<":", "[">> \o Quoted(<<"w">>)
                  \o <<"]", ",", Quote, "b">>,
              <<"U+FEFF", "{">> \o Quoted(<<"a">>) \o <<":", "U+0001", "1", "}">>,
              <<"{", "\n", " ">> \o Quoted(<<"a">>) \o <<":", "1", "}", "\n">> }
    IN  { [name |-> "_fix_json_format", response |-> r]
          : r \in SeqsUpTo(RepairChars, MaxChars) \cup JsonDocs \cup ServiceDocs }

InitRepair ==
    /\ fn \in RepairCalls
    /\ out = NotReturned
    /\ subtitles = <<>>
    /\ ai_config_ok = TRUE
    /\ IdleRequest
    /\ NoDialogs

\* _fix_json_format applied to the response
CallFix ==
    /\ fn.name = "_fix_json_format"
    /\ ~out.returned
    /\ out' = Returned(<<fix_json_format(fn.response)>>)
    /\ UNCHANGED fn
    /\ UNCHANGED request_vars
    /\ UNCHANGED dialog_vars

\* _fix_json_format applied to its own result
CallFixAgain ==
    /\ fn.name = "_fix_json_format"
    /\ out.returned
    /\ Len(out.value) = 1
    /\ out' = Returned(Append(out.value, fix_json_format(out.value[1])))
    /\ UNCHANGED fn
    /\ UNCHANGED request_vars
    /\ UNCHANGED dialog_vars

NextRepair == CallFix \/ CallFixAgain

SpecRepair == InitRepair /\ [][NextRepair]_vars

\* ------------------------- a request for one sentence of a single word

\* generate_exercises for a subtitle list of one sentence: every exercise
\* list it can hand to generation_finished.  The batch call comes first; a
\* batch without result is followed by the call for the sentence alone
generate_exercises(subtitle, batch_response, single_response) ==
    LET batch_exercises == generate_batch_exercises(batch_response, <<subtitle>>, 0, 1)
    IN  IF Truthy(batch_exercises) THEN {batch_exercises.value}
        ELSE { IF exercise.is_none THEN <<>> ELSE <<exercise.value>>
               : exercise \in generate_single_exercise(single_response, subtitle, 1, 1) }

\* the requests: a sentence of one word ("Hi.", "the", "-Hola", "gato",
\* "..."), or the two words "Hola gato." for a repair pass with a choice,
\* and what the service answers to the batch call and to the call for the
\* sentence
InitOneWord ==
    /\ fn \in UNION { { [name |-> "generate_exercises", subtitle |-> SubtitleItem(1, t),
                          batch_response |-> b, single_response |-> s]
                         : b \in BatchResponses(<<SubtitleItem(1, t)>>),
                           s \in SingleResponses(t) }
                       : t \in {TextHi, <<"t","h","e">>, <<"-","H","o","l","a">>,
                                <<"g","a","t","o">>, TextDots, TextHolaGato} }
    /\ out = NotReturned
    /\ subtitles = <<>>
    /\ ai_config_ok = TRUE
    /\ IdleRequest
    /\ NoDialogs

\* AIExerciseThread.run: the exercises generation_finished carries
CallGenerate ==
    /\ fn.name = "generate_exercises"
    /\ ~out.returned
    /\ \E exercises_ \in generate_exercises(fn.subtitle, fn.batch_response,
                                             fn.single_response) :
         out' = Returned(<<[raised |-> FALSE, value |-> exercises_]>>)
    /\ UNCHANGED fn
    /\ UNCHANGED request_vars
    /\ UNCHANGED dialog_vars

\* MainWindow.on_exercises_generated: the repair pass over these exercises
CallEnsureMinBlanks ==
    /\ fn.name = "generate_exercises"
    /\ out.returned
    /\ Len(out.value) = 1
    /\ \E r \in ensure_min_blanks(out.value[1].value) :
         out' = Returned(Append(out.value, r))
    /\ UNCHANGED fn
    /\ UNCHANGED request_vars
    /\ UNCHANGED dialog_vars

\* _ensure_min_blanks called once more on the list it has processed
CallEnsureAgain ==
    /\ fn.name = "generate_exercises"
    /\ out.returned
    /\ Len(out.value) = 2
    /\ \E r \in ensure_min_blanks(out.value[2].value) :
         out' = Returned(Append(out.value, r))
    /\ UNCHANGED fn
    /\ UNCHANGED request_vars
    /\ UNCHANGED dialog_vars

NextOneWord == CallGenerate \/ CallEnsureMinBlanks \/ CallEnsureAgain

SpecOneWord == InitOneWord /\ [][NextOneWord]_vars

\* ------------------------------------------- one call of the remote service

\* call_ai_service: max_retries = 3
max_retries == 3

\* time.sleep(2)
RetryDelay == 2

\* how one requests.post can end: an exception, or a response with its
\* status code and what its body is.  ConnectTimeout and ReadTimeout are
\* subclasses of Timeout; MissingSchema is a RequestException that is
\* neither a Timeout nor a ConnectionError
PostOutcomes ==
    LET Raised(e) == [kind |-> "raised", exception |-> e, status |-> 0, body |-> "none"]
        Response(st, b) ==
            [kind |-> "response", exception |-> "none", status |-> st, body |-> b]
    IN  {Raised(e) : e \in {"Timeout", "ConnectTimeout", "ReadTimeout",
                            "ConnectionError", "MissingSchema"}}
        \cup {Response(200, b) : b \in {"content", "no_choices", "empty_choices",
                                        "no_message", "malformed"}}
        \cup {Response(st, "error") : st \in {401, 429, 500}}

\* a faulty variant: every failed attempt is tried again
RetriedOnAnyFailure(outcome) == outcome.kind = "raised" \/ outcome.status # 200

\* except (requests.exceptions.Timeout, requests.exceptions.ConnectionError)
Retried(outcome) ==
    outcome.kind = "raised"
      /\ outcome.exception \in {"Timeout", "ConnectTimeout", "ReadTimeout", "ConnectionError"}

\* the frame of a call in progress: the loop variable, the place in the
\* code, and the requests and waits made so far
Frame(attempt, at, trace) ==
    [returned |-> FALSE, attempt |-> attempt, at |-> at, trace |-> trace]

\* the call has ended with this result: None or the content
Ended(result, trace) == Returned([result |-> result, trace |-> trace])

\* a faulty variant: the exception leaves call_ai_service
Propagated(exception, trace) == Ended("raised", trace)

\* except Exception as e: the message is printed and the call returns None
OuterExcept(exception, trace) == Ended("None", trace)

InitService ==
    /\ fn = [name |-> "call_ai_service"]
    /\ out = Frame(0, "post", <<>>)
    /\ subtitles = <<>>
    /\ ai_config_ok = TRUE
    /\ IdleRequest
    /\ NoDialogs

\* one turn of the retry loop up to the sleep: requests.post, break on a
\* response, raise on the last attempt, and an exception of another class
\* caught by the outer handler ("return None")
Post ==
    /\ fn.name = "call_ai_service"
    /\ ~out.returned
    /\ out.at = "post"
    /\ out.attempt < max_retries
    /\ \E outcome \in PostOutcomes :
         LET trace == Append(out.trace, [event |-> "post", outcome |-> outcome])
         IN  out' = IF outcome.kind = "response" THEN Frame(out.attempt, "response", trace)
                    ELSE IF ~Retried(outcome) THEN OuterExcept(outcome.exception, trace)
                    ELSE IF out.attempt = max_retries - 1
                    THEN OuterExcept(outcome.exception, trace)
                    ELSE Frame(out.attempt, "sleep", trace)
    /\ UNCHANGED fn
    /\ UNCHANGED request_vars
    /\ UNCHANGED dialog_vars

\* time.sleep(2) and the next turn of the loop
Sleep ==
    /\ fn.name = "call_ai_service"
    /\ ~out.returned
    /\ out.at = "sleep"
    /\ out' = Frame(out.attempt + 1, "post",
                    Append(out.trace, [event |-> "sleep", seconds |-> RetryDelay]))
    /\ UNCHANGED fn
    /\ UNCHANGED request_vars
    /\ UNCHANGED dialog_vars

\* the code behind the loop: the content of a 200 response with choices;
\* None for another status and for a body without choices; response.json()
\* raises ValueError on a malformed body and the subscripts raise KeyError on
\* a choice without message
HandleResponse ==
    /\ fn.name = "call_ai_service"
    /\ ~out.returned
    /\ out.at = "response"
    /\ LET response == out.trace[Len(out.trace)].outcome
       IN  out' = IF response.status # 200 THEN Ended("None", out.trace)
                  ELSE IF response.body = "malformed"
                  THEN OuterExcept("ValueError", out.trace)
                  ELSE IF response.body = "no_message"
                  THEN OuterExcept("KeyError", out.trace)
                  ELSE IF response.body = "content" THEN Ended("content", out.trace)
                  ELSE Ended("None", out.trace)
    /\ UNCHANGED fn
    /\ UNCHANGED request_vars
    /\ UNCHANGED dialog_vars

NextService == Post \/ Sleep \/ HandleResponse

SpecService == InitService /\ [][NextService]_vars

\* ------------------------- the aligner and the mask, called on their own

\* the longest doc handed to the aligner
MaxAlignTokens == 3

\* the calls: the aligner on "go go now", "Go, go now." and "now go" with
\* every doc of up to MaxAlignTokens tokens (words, a full stop, a blank),
\* and the mask on every part of speech with an allow-list or focus areas
InitCloze ==
    /\ fn \in
         { [name |-> "_align_spacy_tokens_to_split_words", text |-> t, doc |-> d]
           : t \in { <<"g","o"," ","g","o"," ","n","o","w">>,
                     <<"G","o",","," ","g","o"," ","n","o","w",".">>,
                     <<"n","o","w"," ","g","o">> },
             d \in SeqsUpTo({ Token(<<"g","o">>, FALSE, "VERB", FALSE, <<"g","o">>),
                              Token(<<"G","o">>, FALSE, "VERB", FALSE, <<"g","o">>),
                              Token(<<"n","o","w">>, TRUE, "ADV", FALSE, <<"n","o","w">>),
                              Token(<<".">>, FALSE, "PUNCT", FALSE, <<".">>),
                              Token(<<" ">>, FALSE, "SPACE", FALSE, <<" ">>) },
                            MaxAlignTokens) }
         \cup
         { [name |-> "_candidate_mask", pos |-> p, allowed_pos |-> a, focus_areas |-> f]
           : p \in {"NOUN", "PROPN", "VERB", "AUX", "ADJ", "ADV", "DET", "INTJ", "PUNCT"},
             a \in {{}, {"NOUN"}, {"DET", "AUX"}},
             f \in SUBSET {"nouns", "verbs", "adjectives", "adverbs", "grammar"} }
    /\ out = NotReturned
    /\ subtitles = <<>>
    /\ ai_config_ok = TRUE
    /\ IdleRequest
    /\ NoDialogs

\* _align_spacy_tokens_to_split_words(text, doc)
CallAlign ==
    /\ fn.name = "_align_spacy_tokens_to_split_words"
    /\ ~out.returned
    /\ out' = Returned(align_spacy_tokens_to_split_words(fn.text, fn.doc))
    /\ UNCHANGED fn
    /\ UNCHANGED request_vars
    /\ UNCHANGED dialog_vars

\* _candidate_mask(pos, allowed_pos, focus_areas)
CallMask ==
    /\ fn.name = "_candidate_mask"
    /\ ~out.returned
    /\ out' = Returned(candidate_mask(fn.pos, fn.allowed_pos, fn.focus_areas))
    /\ UNCHANGED fn
    /\ UNCHANGED request_vars
    /\ UNCHANGED dialog_vars

NextCloze == CallAlign \/ CallMask

SpecCloze == InitCloze /\ [][NextCloze]_vars

\* ================================================================ claims

\* the places of a sequence
Places(s) == DOMAIN s

\* the request has ended with generation_finished.emit(True, ...)
FinishedWithSuccess ==
    /\ pc = "done"
    /\ emitted # <<>>
    /\ emitted[Len(emitted)] = Finished(TRUE)

\* the record of the segment at the 0-based place k of subtitles is in list
HasRecordFor(list, k) ==
    \E r \in Places(list) : list[r].subtitle_index = subtitles[k + 1].index

\* the blanks of a record pass the gate of validate_blanks
GateSound(rec) ==
    LET words == Split(rec.original_text)
    IN  \A k \in Places(rec.blanks) :
          LET b == rec.blanks[k]
          IN  /\ 0 <= b.position
              /\ b.position < Len(words)
              /\ Lower(b.answer) = Lower(GateStrip(words[b.position + 1]))

\* C1: validation gate soundness.  In every exercise record the worker has
\* collected, and in every record after the min-blanks repair pass, each
\* blank's position indexes a word of original_text.split() and its answer
\* equals, without regard to case, that word stripped of punctuation (the
\* stripping of the gate itself, validate_blanks).
C1_GateSoundness ==
    \A list \in {exercises, reconciled.value, generated_exercises} :
      \A r \in Places(list) : GateSound(list[r])

\* a word of the text is non-empty after the stripping of the repair pass
\* and after the stripping of the gate
HasSurvivingWord(text) ==
    \E w \in Range(Split(text)) : RegexClean(w) # <<>> /\ GateStrip(w) # <<>>

\* C2: non-empty guarantee.  Once on_exercises_generated has run
\* _ensure_min_blanks, every record of the list whose text has a word that
\* survives punctuation stripping has at least one blank.
C2_NonEmptyAfterReconciliation ==
    reconciled.ran =>
      \A r \in Places(reconciled.value) :
        HasSurvivingWord(reconciled.value[r].original_text)
          => reconciled.value[r].blanks # <<>>

\* C3: position uniqueness.  No record of the list handed to the main window
\* holds two blanks with the same position.
C3_PositionsUnique ==
    reconciled.ran =>
      \A r \in Places(reconciled.value) :
        LET blanks == reconciled.value[r].blanks
        IN  \A j \in Places(blanks), k \in Places(blanks) :
              blanks[j].position = blanks[k].position => j = k

\* C4: the blanks of every record the remote generator has collected are in
\* strictly ascending order of position.
C4_BlanksAscending ==
    \A r \in Places(exercises) :
      LET blanks == exercises[r].blanks
      IN  \A j \in Places(blanks), k \in Places(blanks) :
            j < k => blanks[j].position < blanks[k].position

\* C5: a segment whose single-sentence generation got no response, after its
\* batch had failed, still has a record in the result of a request that
\* finished with success.
C5_FailedSegmentKeepsRecord ==
    FinishedWithSuccess =>
      \A c \in Places(calls) :
        (calls[c].kind = "single" /\ ~calls[c].got) => HasRecordFor(exercises, calls[c].at)

\* C6: when a batch call gave a result, every sentence of that batch that has
\* no record in the result was asked about again by a single-sentence call.
C6_MissingSentencesRegenerated ==
    FinishedWithSuccess =>
      \A c \in Places(calls) :
        (calls[c].kind = "batch" /\ calls[c].got) =>
          \A k \in calls[c].at..(Min(calls[c].at + batch_size, Len(subtitles)) - 1) :
            HasRecordFor(exercises, k)
              \/ \E d \in Places(calls) : calls[d].kind = "single" /\ calls[d].at = k

\* sentence_index as the service wrote it, 1 when the key is missing
Written(e) == IF e.has_index THEN e.sentence_index ELSE 1

\* the entries of the parsed response whose sentence_index names a segment of
\* the batch, in the order of the response
KeptEntries ==
    SelectSeq(fn.response.exercises,
              LAMBDA e : 1 <= Written(e) /\ Written(e) <= Len(fn.batch.batch_subtitles))

\* a kept entry holds a blank whose position is not a number: the TypeError
\* this raises ends the parsing of the whole response
KeptEntryRaises ==
    \E k \in Places(KeptEntries) :
      \E b \in Places(KeptEntries[k].blanks) : RaisesTypeError(KeptEntries[k].blanks[b])

LocalMode ==
    /\ pc # "none"
    /\ exercise_config.generation_mode = "spacy"
    /\ exercise_config.use_spacy

\* C8: mode dispatch, local.  A request in the local mode makes no call to
\* the remote service and does not fail on the AI configuration.
C8_LocalModeNoRemote ==
    LocalMode =>
      /\ calls = <<>>
      /\ \A k \in Places(emitted) : emitted[k] # Finished(FALSE)

\* C9: event protocol.  The worker emits started before anything else and
\* only once, nothing after finished, finished at most once, and a worker
\* that has ended has emitted finished; while it works, started has been
\* emitted and finished has not.
C9_EventProtocol ==
    /\ emitted # <<>> => emitted[1] = Started
    /\ \A k \in Places(emitted) : emitted[k].type = "started" => k = 1
    /\ \A k \in Places(emitted) : emitted[k].type = "finished" => k = Len(emitted)
    /\ pc = "done" => (emitted # <<>> /\ emitted[Len(emitted)].type = "finished")
    /\ pc \in {"batch", "single"} =>
         (emitted # <<>> /\ emitted[Len(emitted)].type # "finished")
    /\ pc \in {"none", "ready"} => emitted = <<>>

\* a request over more than one batch has ended with success: started, two
\* progress events, finished
C9_Witness ==
    /\ FinishedWithSuccess
    /\ Len(emitted) = 4
    /\ emitted[2].type = "progress"
    /\ emitted[3].type = "progress"

\* C10: every progress value emitted is in 0..100 and the values emitted
\* within one request never decrease.
C10_ProgressMonotone ==
    /\ \A k \in Places(emitted) :
         emitted[k].type = "progress" => emitted[k].value \in 0..100
    /\ \A j \in Places(emitted), k \in Places(emitted) :
         (j < k /\ emitted[j].type = "progress" /\ emitted[k].type = "progress")
           => emitted[j].value <= emitted[k].value

\* the second batch of a request has raised the progress from 90 to 100
\* after the first batch had failed and been redone sentence by sentence
C10_Witness ==
    /\ \E j \in Places(emitted), k \in Places(emitted) :
         /\ j < k
         /\ emitted[j] = ProgressUpdated(90)
         /\ emitted[k] = ProgressUpdated(100)
    /\ \E c \in Places(calls) : calls[c].kind = "single"

\* the selection needs the remote service: anything but "spaCy only" with
\* the spaCy box ticked
NeedsRemote(sel) == ~(sel.mode = "spacy" /\ sel.use_spacy)

\* C11: a run whose dialog was cancelled or closed while its thread was
\* running has no finished signal handled afterwards, and its exercises do
\* not reach the main window.
C11_CancelledRunNotDelivered ==
    /\ \A k \in Places(delivered) :
         delivered[k].signal.type = "finished" => ~delivered[k].cancelled
    /\ \A k \in Places(installed) : ~threads[installed[k]].cancelled

\* C12: at most one generation thread is running at any time.
C12_OneWorkerInFlight ==
    Cardinality({t \in DOMAIN threads : IsRunning(t)}) <= 1

\* C13: when the selection needs the remote service and the API key or URL
\* is missing, no thread is started, so no signal is emitted for the request.
C13_ConfigErrorBeforeWorker ==
    \A t \in DOMAIN threads : ~(NeedsRemote(threads[t].selected) /\ ~ai_config_ok)

\* C14: propagation policy.  For a request with at least one segment and a
\* configured service, the finished signal carries success = False exactly
\* when the worker could produce no exercise record at all.
C14_FailureOnlyWithoutRecords ==
    (pc = "done" /\ ai_config_ok /\ subtitles # <<>> /\ emitted # <<>>) =>
      (~emitted[Len(emitted)].success <=> exercises = <<>>)

C16_RepairIdempotent ==
    (fn.name = "_fix_json_format" /\ out.returned /\ Len(out.value) = 2)
      => out.value[2] = out.value[1]

\* what json.loads reads of a text: the text without the white space between
\* tokens (white space inside a string stays).  Two texts that parse and
\* agree in this hold the same value
Significant(s) ==
    LET RECURSIVE From(_, _)
        From(p, inside) ==
            IF p > Len(s) THEN <<>>
            ELSE IF s[p] = Quote THEN <<Quote>> \o From(p + 1, ~inside)
            ELSE IF ~inside /\ s[p] \in JsonSpace THEN From(p + 1, inside)
            ELSE <<s[p]>> \o From(p + 1, inside)
    IN  From(1, FALSE)

\* C17: JSON repair leaves valid input alone.  For a response that is valid
\* JSON, the repaired text holds the same value: the same text but for white
\* space between tokens.
C17_ValidJsonUnchanged ==
    (fn.name = "_fix_json_format" /\ out.returned /\ JsonParses(fn.response))
      => Significant(out.value[1]) = Significant(fn.response)

\* place k of the text holds a line break inside a string value, between
\* two characters of the value, and the text is valid JSON without it
MidValueBreak(s, k) ==
    /\ k \in 2..(Len(s) - 1)
    /\ s[k] = "\n"
    /\ s[k - 1] \notin RegexSpace \cup {Quote}
    /\ s[k + 1] \notin RegexSpace \cup {Quote}
    /\ Cardinality({q \in 1..(k - 1) : s[q] = Quote}) % 2 = 1
    /\ JsonParses(SubSeq(s, 1, k - 1) \o SubSeq(s, k + 1, Len(s)))

\* C18: a line break in the middle of a string value is removed by the
\* repair: the repaired text is the text without it, but for white space
\* between tokens, and json.loads accepts it.
C18_MidValueBreakRepaired ==
    (fn.name = "_fix_json_format" /\ out.returned)
      => \A k \in DOMAIN fn.response :
           MidValueBreak(fn.response, k) =>
             /\ JsonParses(out.value[1])
             /\ Significant(out.value[1])
                  = Significant(SubSeq(fn.response, 1, k - 1)
                                  \o SubSeq(fn.response, k + 1, Len(fn.response)))

\* the sentence is one word, and the word is more than punctuation
OneWord(text) ==
    /\ Len(Split(text)) = 1
    /\ GateStrip(Split(text)[1]) # <<>>
    /\ RegexClean(Split(text)[1]) # <<>>
    /\ strip_punct(Split(text)[1]) # <<>>

\* the blanks are none, or one blank at position 0 whose answer is the word
\* of the text without its punctuation, as any of the program's three ways
\* of stripping leaves it
NoneOrTheWord(blanks, text) ==
    \/ blanks = <<>>
    \/ /\ Len(blanks) = 1
       /\ blanks[1].position = 0
       /\ blanks[1].answer \in {GateStrip(Split(text)[1]), RegexClean(Split(text)[1]),
                                strip_punct(Split(text)[1])}

\* C19: for a sentence of one word, generation followed by the repair pass
\* does not raise, and every exercise it leaves has no blank or exactly one
\* blank at position 0 whose answer is the word without its punctuation.
C19_OneWordSentence ==
    (fn.name = "generate_exercises" /\ out.returned /\ Len(out.value) = 2
       /\ OneWord(fn.subtitle.text))
      => /\ ~out.value[2].raised
         /\ \A k \in DOMAIN out.value[2].value :
              NoneOrTheWord(out.value[2].value[k].blanks, fn.subtitle.text)

\* what the call has done so far: its requests and waits, in order
Trace == IF out.returned THEN out.value.trace ELSE out.trace

\* the requests among the first k events of the trace
Posts(k) == {j \in 1..k : Trace[j].event = "post"}

\* the request at place j ended in a timeout or a connection failure
TimedOutOrUnconnected(j) ==
    /\ Trace[j].event = "post"
    /\ Trace[j].outcome.kind = "raised"
    /\ Trace[j].outcome.exception
         \in {"Timeout", "ConnectTimeout", "ReadTimeout", "ConnectionError"}

\* C20: the retry policy of one remote call.  call_ai_service makes at most
\* 3 requests; a request other than the first comes right behind one wait of
\* 2 seconds, which comes right behind a request that ended in a timeout or
\* a connection failure; no wait is the last thing a call does; and a
\* request that ended any other way (an HTTP error status, a malformed body,
\* a good response) is the last request of the call.
C20_RetryPolicy ==
    fn.name = "call_ai_service" =>
      /\ Cardinality(Posts(Len(Trace))) <= 3
      /\ \A j \in 1..Len(Trace) :
           /\ (Trace[j].event = "post" /\ j > 1) =>
                 /\ Trace[j - 1].event = "sleep"
                 /\ j > 2 /\ TimedOutOrUnconnected(j - 2)
           /\ Trace[j].event = "sleep" =>
                 /\ Trace[j].seconds = 2
                 /\ j > 1 /\ TimedOutOrUnconnected(j - 1)
                 /\ out.returned => j < Len(Trace)
           /\ (Trace[j].event = "post" /\ ~TimedOutOrUnconnected(j)) => j = Len(Trace)

\* a call that made three requests with two waits between them and returned
C20_Witness ==
    /\ fn.name = "call_ai_service"
    /\ out.returned
    /\ Len(Trace) = 5
    /\ Cardinality(Posts(5)) = 3
    /\ TimedOutOrUnconnected(5)

\* the call has ended and its last request ended this way
LastPost == Trace[Len(Trace)].outcome

\* C21: a failed remote call is a value.  call_ai_service never ends with an
\* exception; it returns None when the retries are exhausted, on a status
\* other than 200, on a body without choices and on every other error, and
\* the content only for a 200 response that holds it.
C21_FailureIsAValue ==
    (fn.name = "call_ai_service" /\ out.returned) =>
      /\ out.value.result \in {"None", "content"}
      /\ out.value.result = "content"
           <=> (LastPost.kind = "response" /\ LastPost.status = 200
                  /\ LastPost.body = "content")

\* a call that returned None after its third request timed out
C21_Witness ==
    /\ fn.name = "call_ai_service"
    /\ out.returned
    /\ out.value.result = "None"
    /\ Cardinality(Posts(Len(Trace))) = 3
    /\ LastPost.kind = "raised"
    /\ LastPost.exception = "ReadTimeout"

\* the number of segments of the batch that starts at the 0-based place b
BatchLength(b) == Min(b + batch_size, Len(subtitles)) - b

\* C22: batch failure fallback.  A batch call without result is followed by
\* one single-sentence call for each segment of that batch, in order, before
\* anything else is called; a batch call with a result is followed by the
\* call of the next batch; and a single-sentence call is made nowhere else,
\* so no segment is asked about twice and no segment of another batch is
\* asked about at all.
C22_BatchFailureFallback ==
    \A c \in Places(calls) :
      /\ (calls[c].kind = "batch" /\ ~calls[c].got) =>
            /\ \A k \in 1..BatchLength(calls[c].at) :
                 IF c + k <= Len(calls)
                 THEN calls[c + k].kind = "single" /\ calls[c + k].at = calls[c].at + k - 1
                 ELSE pc = "single" /\ batch_start = calls[c].at /\ i = Len(calls) - c
      /\ (calls[c].kind = "batch" /\ calls[c].got /\ c < Len(calls)) =>
            calls[c + 1].kind = "batch"
      /\ calls[c].kind = "single" =>
            \E b \in 1..(c - 1) :
              /\ calls[b].kind = "batch"
              /\ ~calls[b].got
              /\ c - b <= BatchLength(calls[b].at)

\* a request of two batches has ended: the first batch failed and each of its
\* segments was asked about alone, the second batch gave a result
C22_Witness ==
    /\ FinishedWithSuccess
    /\ Len(subtitles) > batch_size
    /\ Len(calls) = batch_size + 2
    /\ calls[1].kind = "batch" /\ ~calls[1].got
    /\ calls[batch_size + 1].kind = "single" /\ calls[batch_size + 1].at = batch_size - 1
    /\ calls[batch_size + 2].kind = "batch" /\ calls[batch_size + 2].got

\* the number of segments the worker is done with: those of the batches
\* before the present one and, in the per-sentence loop, those before
\* sentence i of the present batch
Processed == batch_start + i

\* C23: progress reflects completed work.  While the worker is in its loop,
\* every progress value p it has emitted is at most the percentage of the
\* request's segments it is done with; so 100 is emitted only when the last
\* batch has been processed.
C23_ProgressReflectsWork ==
    pc \in {"batch", "single"} =>
      \A k \in Places(emitted) :
        emitted[k].type = "progress" =>
          emitted[k].value * Len(subtitles) <= 100 * Processed

\* the tokens the aligner has mapped to a word
Mapped == {j \in DOMAIN out.value : out.value[j] # 0}

\* the doc holds exactly the tokens go, go, now
GoGoNow ==
    /\ fn.text = <<"g","o"," ","g","o"," ","n","o","w">>
    /\ [j \in DOMAIN fn.doc |-> fn.doc[j].text] = << <<"g","o">>, <<"g","o">>, <<"n","o","w">> >>

\* C24: aligner monotonicity.  The mapping from tokens to words is strictly
\* increasing, so no two tokens share a word; the lowercased text of a mapped
\* token is the lowercased word without its punctuation; and the tokens go,
\* go, now of "go go now" map to the words 0, 1 and 2 (here numbered from 1).
C24_AlignerMonotone ==
    (fn.name = "_align_spacy_tokens_to_split_words" /\ out.returned) =>
      /\ \A j1 \in Mapped, j2 \in Mapped : j1 < j2 => out.value[j1] < out.value[j2]
      /\ \A j \in Mapped :
           /\ out.value[j] \in DOMAIN Split(fn.text)
           /\ Lower(fn.doc[j].text) = Lower(strip_punct(Split(fn.text)[out.value[j]]))
      /\ GoGoNow => out.value = <<1, 2, 3>>

\* the aligner has returned for the tokens go, go, now of "go go now"
C24_Witness ==
    /\ fn.name = "_align_spacy_tokens_to_split_words"
    /\ out.returned
    /\ GoGoNow
    /\ Mapped = {1, 2, 3}

\* the mapping table of the focus areas
FocusTable(area) ==
    CASE area = "nouns"      -> {"NOUN", "PROPN"}
      [] area = "verbs"      -> {"VERB", "AUX"}
      [] area = "adjectives" -> {"ADJ"}
      [] area = "adverbs"    -> {"ADV"}
      [] OTHER               -> {}

\* the parts of speech the configured focus areas map to
FocusUnion(focus_areas) == UNION {FocusTable(area) : area \in focus_areas}

\* C25: eligibility from focus areas.  Without an allow-list, when a
\* configured focus area is in the mapping table, a part of speech is
\* eligible exactly when it is in the union of the mapped sets; when none is
\* in the table, exactly when it is one of NOUN, PROPN, VERB, ADJ, ADV.
C25_FocusAreaEligibility ==
    (fn.name = "_candidate_mask" /\ out.returned /\ fn.allowed_pos = {}) =>
      out.value <=> (IF FocusUnion(fn.focus_areas) # {}
                     THEN fn.pos \in FocusUnion(fn.focus_areas)
                     ELSE fn.pos \in {"NOUN", "PROPN", "VERB", "ADJ", "ADV"})

\* the number of distinct word indices that are eligible for a blank: those
\* of the tokens that pass the filter, or the relaxed filter when none does
EligibleCount ==
    LET words == Split(fn.text)
        align == align_spacy_tokens_to_split_words(fn.text, fn.doc)
        first == Candidates(fn.doc, align, words, fn.config, TRUE)
        candidates == IF first # <<>> THEN first
                      ELSE Candidates(fn.doc, align, words, fn.config, FALSE)
    IN  Cardinality({candidates[k].widx : k \in DOMAIN candidates})

\* the number of blanks asked for: max_blanks when it is positive, otherwise
\* max(1, round(word_count * blank_density / 100)) capped at 2
RoundedTarget ==
    IF fn.config.max_blanks > 0 THEN fn.config.max_blanks
    ELSE LET rounded == (2 * Len(Split(fn.text)) * fn.config.blank_density + 100) \div 200
         IN  Min(2, Max(1, rounded))

\* C26: blank count of the local generator.  select_blanks_spacy returns
\* min(target, number of eligible word indices) blanks, never more blanks
\* than there are eligible candidates.
C26_LocalBlankCount ==
    (fn.name = "select_blanks_spacy" /\ out.returned) =>
      /\ Len(out.value[1]) <= EligibleCount
      /\ Len(out.value[1]) = Min(RoundedTarget, EligibleCount)

\* C27: the min-blanks repair pass is idempotent.  _ensure_min_blanks run a
\* second time on the list it has processed changes no record and ends as
\* the first run did.
C27_RepairPassIdempotent ==
    (fn.name = "generate_exercises" /\ out.returned /\ Len(out.value) = 3) =>
      /\ out.value[3].value = out.value[2].value
      /\ out.value[3].raised = out.value[2].raised

\* the pass has run twice on "Hola gato.": the exercise came without a blank,
\* the first run drew the blank for "gato" and the second run kept it
C27_Witness ==
    /\ fn.name = "generate_exercises"
    /\ out.returned
    /\ Len(out.value) = 3
    /\ fn.subtitle.text = TextHolaGato
    /\ Len(out.value[1].value) = 1
    /\ out.value[1].value[1].blanks = <<>>
    /\ Len(out.value[3].value[1].blanks) = 1
    /\ out.value[3].value[1].blanks[1].position = 1

\* C28: exercise and subtitle stay aligned during playback.  When a subtitle
\* has been played in exercise mode, the exercise shown for it has the text
\* of that subtitle as its original_text.
C28_ExerciseMatchesSubtitle ==
    (exercise_mode /\ current_exercise_subtitle # 0) =>
      show_current_exercise = subtitles[current_exercise_subtitle].text

\* C29: every blank has an answer.  In every exercise record the worker has
\* collected, and in every record after the repair pass, the answer of each
\* blank is a non-empty word.
C29_AnswersNonEmpty ==
    \A list \in {exercises, reconciled.value, generated_exercises} :
      \A r \in Places(list) :
        \A b \in Places(list[r].blanks) : list[r].blanks[b].answer # <<>>

\* C30: the min-blanks repair pass completes.  Whenever on_exercises_generated
\* has run _ensure_min_blanks, the pass ended without raising, and a record
\* it had to leave without a blank is one whose text has no word that
\* survives the stripping.
C30_RepairPassCompletes ==
    reconciled.ran =>
      /\ ~reconciled.raised
      /\ \A r \in Places(reconciled.value) :
           reconciled.value[r].blanks = <<>> =>
             \A w \in Range(Split(reconciled.value[r].original_text)) :
               RegexClean(w) = <<>>
====
